---- MODULE Spec2Model ----
(***************************************************************************)
(* Resilience layer of the Firefly III Go client: the error classifier     *)
(* (HTTPErrorFromResponse, ContextErr), RetryConfig.isRetryableError and   *)
(* calculateBackoffDelay, FireflyClient.RetryOperation, the middlewares    *)
(* and the MiddlewareChain, the client's rate limiter, the                 *)
(* WebhookManager and WebhookServer, the FireflyClient constructors with   *)
(* EnableDefaultMiddleware and GetTransaction, the OAuth2 methods, the     *)
(* importer registry and the BaseImporter.  Each part has its own          *)
(* specification (Spec, SpecBackoff, SpecClassify, SpecChain,              *)
(* SpecChainFair, SpecChainCall, SpecLimiter, SpecRetryMw, SpecWebhook,    *)
(* SpecServer, SpecClient, SpecOAuth2, SpecImporters, SpecBaseImporter);   *)
(* the variables of the other parts stay idle in it.                       *)
(*                                                                         *)
(* Conventions.                                                            *)
(*  - A Go string is a sequence of tokens; strings.Contains(s, t) for a    *)
(*    one-token t is membership of t among the tokens of s.  The tokens of *)
(*    a URL are its path segments, so a URL can carry any of the error     *)
(*    code words.                                                          *)
(*  - A time.Duration is an integer number of ticks (Second ticks make a   *)
(*    second); time.Duration(float) truncates toward zero to a whole tick. *)
(*  - BackoffFactor (a float64 >= 1) is a fraction <<num, den>>; the float *)
(*    arithmetic of calculateBackoffDelay is carried out exactly.          *)
(*  - mathrand.Float64() returns u / JitterSteps for u in 0..JitterSteps-1 *)
(*    (a value of [0, 1)).                                                 *)
(***************************************************************************)
EXTENDS Integers, Sequences, FiniteSets, TLC

\* ------------------------------------------------------------------ bounds
MaxRetryCount == 2      \* ClientConfig.RetryCount ranges over -1..MaxRetryCount
JitterSteps   == 4      \* number of distinct values mathrand.Float64() takes
MaxAttempt    == 3      \* attempts probed on calculateBackoffDelay: -1..MaxAttempt

\* ------------------------------------------------------- program constants
Second             == 1000
DefaultMaxRetries  == 3
DefaultMaxDelaySec == 30

ErrAPIFailure     == "api_failure"
ErrNotFound       == "not_found"
ErrDuplicateEntry == "duplicate_entry"
ErrRateLimit      == "rate_limit"
ErrAuthentication == "authentication_failed"
ErrAuthorization  == "authorization_failed"
ErrNetwork        == "network_error"
ErrTimeout        == "timeout_error"
ErrServerError    == "server_error"

StatusUnauthorized        == 401
StatusForbidden           == 403
StatusNotFound            == 404
StatusRequestTimeout      == 408
StatusConflict            == 409
StatusTooManyRequests     == 429
StatusInternalServerError == 500
StatusBadGateway          == 502
StatusServiceUnavailable  == 503
StatusGatewayTimeout      == 504

VARIABLES
    \* --- RetryOperation (one call of it, and its caller's context)
    config,        \* FireflyClient.config: NoConfig or [RetryCount, RetryDelay]
    opScript,      \* the wrapped operation: the error its k-th invocation returns
    ctxState,      \* the caller's ctx: "active", or the ctx.Err() it reports
    pc,            \* "idle", "loop", "running", "waiting", "done"
    attempt,       \* the loop counter
    lastErr,       \* lastErr
    result,        \* the value RetryOperation returned (when pc = "done")
    invocations,   \* number of times operation(ctx) has been called
    waited,        \* the delays handed to time.After, in order
    cancelAt,      \* [pc, invocations] when ctx.Done() was closed, or NotFired
    \* --- calculateBackoffDelay applied to a RetryConfig
    bcfg,          \* the RetryConfig
    battempt,      \* the attempt argument
    bdelay,        \* the returned duration, NoDelay before the call
    \* --- the classifier and isRetryableError applied to errors
    rcfg,          \* the RetryConfig whose RetryableErrors decide
    render,        \* which parts errbuilder's Error() renders
    classified,    \* [resp, err]: the last response classified and its error
    checked,       \* [err, retryable]: the last isRetryableError call
    \* --- one MiddlewareChain shared by concurrent goroutines
    middlewares,   \* MiddlewareChain.middlewares
    mu,            \* MiddlewareChain.mu: [writer, readers, pending]
    gor,           \* per goroutine: the chain method it runs and its locals
    added,         \* the middlewares of the Add calls that returned, in order
    \* --- a client's rate limiter and a caller's passes through its middleware
    rateLimit,     \* ClientConfig.RateLimit
    limiter,       \* FireflyClient.limiter: [limit, burst, tokens]
    acq,           \* the caller: its ctx and its RateLimitMiddleware call
    sinceGrant,    \* ticks since the limiter last granted a token
    winElapsed,    \* ticks since the observed 60 s window opened
    winCount,      \* tokens granted in the observed window
    \* --- a RetryMiddleware and the last call of one of its methods
    retryMw,       \* the *RetryMiddleware
    mwCall,        \* [method, arg, ret] of the last call, NoCall before it
    \* --- one WebhookManager, goroutines registering and dispatching on it
    handlers,      \* WebhookManager.handlers: event type -> list of handlers
    wmu,           \* WebhookManager.mu: [writer, readers, pending]
    reg,           \* per registering goroutine: its RegisterHandler call
    disp,          \* per dispatching goroutine: its ProcessWebhook call
    registered,    \* the registrations whose RegisterHandler returned, in order
    \* --- a WebhookServer and the inbound request its handler is serving
    ws,            \* the *WebhookServer: [secret, handlers (of its manager)]
    hw,            \* handleWebhook: its position, r, and what it has done
    \* --- a FireflyClient and the caller of its methods
    client,        \* the *FireflyClient: [config, limiter, middleware]
    tx,            \* the method call under way: position, trace, result
    enabled,       \* EnableDefaultMiddleware calls made: [count, first]
    \* --- a FireflyClient's OAuth2 configuration and the last OAuth2 call
    oconfig,       \* c.config: NilConfig, or [OAuth2], itself NilOAuth2 or set
    ocall,         \* [method, ret, sent]: the call, its result, requests sent
    \* --- a FireflyClient's importer registry and the last call on it
    importers,     \* c.importers: name -> importer
    icall,         \* [method, arg, ret] of the last call
    accepted,      \* the importers whose RegisterImporter returned nil
    \* --- a BaseImporter and the calls made on it
    base,          \* the *BaseImporter: [config, progress, cancelled, ctx, cancelFunc]
    history        \* [initialized, cancelPending]: what the calls so far amount to

retryVars    == <<config, opScript, ctxState, pc, attempt, lastErr, result,
                  invocations, waited, cancelAt>>
backoffVars  == <<bcfg, battempt, bdelay>>
classifyVars == <<rcfg, render, classified, checked>>
chainVars    == <<middlewares, mu, gor, added>>
limiterVars  == <<rateLimit, limiter, acq, sinceGrant, winElapsed, winCount>>
retryMwVars  == <<retryMw, mwCall>>
webhookVars  == <<handlers, wmu, reg, disp, registered>>
serverVars   == <<ws, hw>>
clientVars   == <<client, tx, enabled>>
oauthVars    == <<oconfig, ocall>>
importerVars == <<importers, icall, accepted>>
baseVars     == <<base, history>>
appVars      == <<serverVars, clientVars, oauthVars, importerVars, baseVars>>
extVars      == <<chainVars, limiterVars, retryMwVars, webhookVars, appVars>>
vars         == <<retryVars, backoffVars, classifyVars, extVars>>

\* ------------------------------------------------------------ error values
\* A nil error.
NilErr == [type |-> "nil"]

\* NewHTTPError: *HTTPError{StatusCode, Method, URL, ...}; Headers set by
\* WithHeaders.  ResponseTime and Timestamp carry no code word and are left out.
NewHTTPError(statusCode, method, url) ==
    [type |-> "HTTPError", StatusCode |-> statusCode, Method |-> method,
     URL |-> url, Headers |-> {}]

\* context.Canceled and context.DeadlineExceeded, the two sentinel errors.
ContextCanceled         == [type |-> "context", name |-> "Canceled"]
ContextDeadlineExceeded == [type |-> "context", name |-> "DeadlineExceeded"]

\* errbuilder.NewErrBuilder().WithCode(c).WithMsg(m).WithDetails(d).WithCause(e)
NoDetails == <<>>
ErrBuilder(code, msg, details, cause) ==
    [type |-> "ErrBuilder", Code |-> code, Msg |-> msg, Details |-> details,
     Cause |-> cause]

AuthenticationErr(err) ==
    ErrBuilder("CodeUnauthenticated", "Authentication Failed",
               <<"error_type", ErrAuthentication, "help">>, err)
AuthorizationErr(err) ==
    ErrBuilder("CodePermissionDenied", "Authorization Failed",
               <<"error_type", ErrAuthorization, "help">>, err)
NetworkErr(err) ==
    ErrBuilder("CodeUnavailable", "Network Error",
               <<"error_type", ErrNetwork, "help">>, err)
TimeoutErr(err) ==
    ErrBuilder("CodeDeadlineExceeded", "Request Timeout",
               <<"error_type", ErrTimeout, "help">>, err)
ServerErr(err) ==
    ErrBuilder("CodeInternal", "Server Error",
               <<"error_type", ErrServerError, "help">>, err)
ClientErr(err) ==
    ErrBuilder("CodeInvalidArgument", "Client Error",
               <<"error_type", ErrAPIFailure, "help">>, err)
NotFoundErr(resourceType, err) ==
    ErrBuilder("CodeNotFound", resourceType \o " Not Found", NoDetails, err)
DuplicateErr(resourceType, err) ==
    ErrBuilder("CodeAlreadyExists", "Duplicate " \o resourceType, NoDetails, err)
RateLimitErr(err) ==
    ErrBuilder("CodeResourceExhausted", "Rate Limit Exceeded", NoDetails, err)

\* ContextErr: a context error wrapped by its kind.
ContextErr(err) ==
    IF err = ContextCanceled
    THEN ErrBuilder("CodeCanceled", "Request Cancelled", NoDetails, err)
    ELSE IF err = ContextDeadlineExceeded
    THEN TimeoutErr(err)
    ELSE ErrBuilder("CodeInternal", "Context Error", NoDetails, err)

\* HTTPErrorFromResponse: the classified error of a response.
RelevantHeaders == {"Content-Type", "X-Request-ID", "X-RateLimit-Remaining"}
HTTPErrorFromResponse(resp, method, url) ==
    LET headers == resp.Header \cap RelevantHeaders
        httpErr == [NewHTTPError(resp.StatusCode, method, url)
                        EXCEPT !.Headers = headers]
    IN  CASE resp.StatusCode = StatusUnauthorized    -> AuthenticationErr(httpErr)
          [] resp.StatusCode = StatusForbidden       -> AuthorizationErr(httpErr)
          [] resp.StatusCode = StatusNotFound        -> NotFoundErr("Resource", httpErr)
          [] resp.StatusCode = StatusTooManyRequests -> RateLimitErr(httpErr)
          [] resp.StatusCode \in {StatusInternalServerError, StatusBadGateway,
                                  StatusServiceUnavailable} -> ServerErr(httpErr)
          [] OTHER ->
               IF resp.StatusCode >= 400 /\ resp.StatusCode < 500
               THEN ClientErr(httpErr)
               ELSE ServerErr(httpErr)

\* ------------------------------------------------------------ error strings
\* (*HTTPError).Error(): "HTTP %d: %s %s (took %v)".
HTTPErrorString(h) ==
    <<"HTTP", ToString(h.StatusCode), h.Method>> \o h.URL \o <<"took">>

\* The Error() text of the context sentinels.
ContextErrorString(e) ==
    IF e.name = "Canceled" THEN <<"context", "canceled">>
                           ELSE <<"context", "deadline", "exceeded">>

\* Error() of an error that is not an ErrBuilder.
PlainErrorString(e) ==
    CASE e.type = "HTTPError" -> HTTPErrorString(e)
      [] e.type = "context"   -> ContextErrorString(e)
      [] OTHER                -> <<>>

\* (*errbuilder.ErrBuilder).Error() belongs to a library outside the
\* repository: which of the builder's parts it prints is the choice `render`
\* (any subset of RenderParts), fixed for a run.
RenderParts == {"code", "msg", "details", "cause"}
ErrBuilderString(e) ==
    (IF "code" \in render THEN <<e.Code>> ELSE <<>>)
    \o (IF "msg" \in render THEN <<e.Msg>> ELSE <<>>)
    \o (IF "details" \in render THEN e.Details ELSE <<>>)
    \o (IF "cause" \in render THEN PlainErrorString(e.Cause) ELSE <<>>)

\* err.Error()
ErrorString(e) ==
    IF e.type = "ErrBuilder" THEN ErrBuilderString(e) ELSE PlainErrorString(e)

\* strings.Contains(s, t) for a one-token t.
Contains(s, t) == \E i \in 1..Len(s) : s[i] = t

\* ------------------------------------------------------------- RetryConfig
DefaultRetryableErrors == <<ErrNetwork, ErrTimeout, ErrServerError, ErrRateLimit>>

\* DefaultRetryConfig()
DefaultRetryConfig ==
    [MaxRetries      |-> DefaultMaxRetries,
     InitialDelay    |-> Second,
     MaxDelay        |-> DefaultMaxDelaySec * Second,
     BackoffFactor   |-> <<2, 1>>,
     RetryableErrors |-> DefaultRetryableErrors]

\* The statuses isRetryableError retries on a bare *HTTPError.
RetryableStatuses ==
    {StatusTooManyRequests, StatusInternalServerError, StatusBadGateway,
     StatusServiceUnavailable, StatusGatewayTimeout, StatusRequestTimeout}

\* isRetryableError that treats every *HTTPError as retryable.
isRetryableError_AnyHTTPError(r, err) ==
    IF err.type = "nil" THEN FALSE
    ELSE IF err.type = "HTTPError" THEN TRUE
    ELSE IF err.type = "context" THEN TRUE
    ELSE \E i \in 1..Len(r.RetryableErrors) :
             Contains(ErrorString(err), r.RetryableErrors[i])

\* isRetryableError that retries a deadline but not a cancellation.
isRetryableError_CancelNotRetried(r, err) ==
    IF err.type = "nil" THEN FALSE
    ELSE IF err.type = "HTTPError" /\ err.StatusCode \in RetryableStatuses THEN TRUE
    ELSE IF err.type = "context" /\ err.name = "DeadlineExceeded" THEN TRUE
    ELSE \E i \in 1..Len(r.RetryableErrors) :
             Contains(ErrorString(err), r.RetryableErrors[i])

\* (r *RetryConfig) isRetryableError(err).  The type assertion err.(*HTTPError)
\* and the comparisons err == context.X look at err itself, never at a cause.
isRetryableError(r, err) ==
    IF err.type = "nil" THEN FALSE
    ELSE IF err.type = "HTTPError" /\ err.StatusCode \in RetryableStatuses THEN TRUE
    ELSE IF err.type = "context" THEN TRUE
    ELSE \E i \in 1..Len(r.RetryableErrors) :
             Contains(ErrorString(err), r.RetryableErrors[i])

RECURSIVE Pow(_, _)
Pow(b, n) == IF n <= 0 THEN 1 ELSE b * Pow(b, n - 1)

\* delay = InitialDelay * BackoffFactor^attempt (att) capped at MaxDelay, as the
\* fraction <<numerator, denominator>>.
PlannedDelay(r, att) ==
    LET num == r.InitialDelay * Pow(r.BackoffFactor[1], att)
        den == Pow(r.BackoffFactor[2], att)
    IN  IF num > r.MaxDelay * den THEN <<r.MaxDelay, 1>> ELSE <<num, den>>

\* (r *RetryConfig) calculateBackoffDelay(att), with mathrand.Float64()
\* returning u / JitterSteps:
\*   jitter = delay * 0.1 * (0.5 - u/JitterSteps);  time.Duration(delay + jitter)
\* = trunc(delay * (21*JitterSteps - 2*u) / (20*JitterSteps)).
calculateBackoffDelay(r, att, u) ==
    IF att <= 0 THEN r.InitialDelay
    ELSE LET d == PlannedDelay(r, att)
         IN  (d[1] * (21 * JitterSteps - 2 * u)) \div (d[2] * 20 * JitterSteps)

\* ---------------------------------------------------------- RetryOperation
NotFired == [pc |-> "none", invocations |-> 0]
NoDelay  == 0 - 1

\* ClientConfig as far as RetryOperation reads it; present = FALSE is the
\* client of NewFireflyClient, whose config field is nil.
RetryDelays == {0, Second, 60 * Second}
Configs ==
    {[present |-> FALSE, RetryCount |-> 0, RetryDelay |-> 0]}
    \cup [present : {TRUE}, RetryCount : (0 - 1)..MaxRetryCount, RetryDelay : RetryDelays]

\* The errors the wrapped operation returns.
PlainURL == <<"api", "v1", "accounts">>
OpErrors ==
    {NilErr,
     NewHTTPError(StatusInternalServerError, "GET", PlainURL),
     NewHTTPError(StatusNotFound, "GET", PlainURL),
     ContextCanceled}

\* The wrapped operation: invocation k returns opScript[k]; invocations past
\* the end of the script repeat its last entry.
ScriptLen ==
    (IF MaxRetryCount > DefaultMaxRetries THEN MaxRetryCount ELSE DefaultMaxRetries) + 1
Scripts == [1..ScriptLen -> OpErrors]
OpOutcome(k) == opScript[IF k <= ScriptLen THEN k ELSE ScriptLen]

\* retryConfig := DefaultRetryConfig(); overridden from c.config when not nil.
retryConfig ==
    IF config.present
    THEN [DefaultRetryConfig EXCEPT !.MaxRetries = config.RetryCount,
                                    !.InitialDelay = config.RetryDelay]
    ELSE DefaultRetryConfig

\* ctx.Err() once ctx.Done() is closed.
CtxErr == IF ctxState = "Canceled" THEN ContextCanceled ELSE ContextDeadlineExceeded

RetryIdle ==
    /\ config = [present |-> FALSE, RetryCount |-> 0, RetryDelay |-> 0]
    /\ opScript = [k \in 1..ScriptLen |-> NilErr]
    /\ ctxState = "active"
    /\ pc = "off"
    /\ attempt = 0
    /\ lastErr = NilErr
    /\ result = NilErr
    /\ invocations = 0
    /\ waited = <<>>
    /\ cancelAt = NotFired

BackoffIdle ==
    /\ bcfg = DefaultRetryConfig
    /\ battempt = 0
    /\ bdelay = NoDelay

NoResponse == [StatusCode |-> 0, Header |-> {}]
NotClassified == [resp |-> NoResponse, err |-> NilErr]
NotChecked == [err |-> NilErr, retryable |-> FALSE, called |-> FALSE]

ClassifyIdle ==
    /\ rcfg = DefaultRetryConfig
    /\ render = RenderParts
    /\ classified = NotClassified
    /\ checked = NotChecked

\* The goroutines that share the chain, and the locals of one that runs no
\* chain method.
Goroutines == {"g1", "g2"}
NoMiddleware == [kind |-> "none", name |-> "none"]
NoMessage == [nil |-> TRUE]
NoReturn == [val |-> NoMessage, err |-> NilErr]
GorAt(pcval) ==
    [pc |-> pcval, op |-> "none", middleware |-> NoMiddleware, arg |-> NoMessage,
     i |-> 0, current |-> NoMessage, calls |-> <<>>, ret |-> NoReturn,
     snap |-> <<>>, suspended |-> FALSE, sameCall |-> FALSE, reqCalls |-> <<>>]

\* A sync.RWMutex nobody holds or waits for.
NoGoroutine == "none"
MuFree == [writer |-> NoGoroutine, readers |-> {}, pending |-> {}]

ChainIdle ==
    /\ middlewares = <<>>
    /\ mu = MuFree
    /\ gor = [g \in Goroutines |-> GorAt("off")]
    /\ added = <<>>

\* The clock of the limiter: TicksPerSecond ticks make a second, and a token
\* is TicksPerSecond units, so that a limit of n tokens per second adds n
\* units per tick.  MaxRateLimit bounds ClientConfig.RateLimit.
MaxRateLimit == 2
TicksPerSecond == MaxRateLimit
NoTicks == 0 - 1

\* rate.NewLimiter(limit, burst): limit in tokens per second; the bucket
\* starts full.
NewLimiter(limit, burst) ==
    [limit |-> limit, burst |-> burst, tokens |-> burst * TicksPerSecond]

\* The caller of the rate-limiting middleware outside any call.
AcqAt(pcval) ==
    [pc |-> pcval, ctx |-> "Background", blocked |-> FALSE, waitErr |-> NilErr,
     ret |-> NoReturn, gap |-> NoTicks]

LimiterIdle ==
    /\ rateLimit = 0
    /\ limiter = NewLimiter(0, 0)
    /\ acq = AcqAt("off")
    /\ sinceGrant = NoTicks
    /\ winElapsed = NoTicks
    /\ winCount = 0

NoCall == [method |-> "none", arg |-> NoMessage, ret |-> NoReturn]

RetryMwIdle ==
    /\ retryMw = [kind |-> "retry", name |-> "retry", config |-> DefaultRetryConfig]
    /\ mwCall = NoCall

\* The event types of the model, the goroutines that call RegisterHandler
\* and those that call ProcessWebhook.
EventTypes == {"t", "u"}
Registrars == {"r1", "r2"}
Dispatchers == {"d1"}

EmptyMap == [t \in {} |-> <<>>]
NoHandler == [id |-> 0, eventType |-> "none", fails |-> FALSE]
NoPayload == [json |-> "none"]
NoEvent == [ID |-> "", Type |-> ""]
RegAt(pcval) == [pc |-> pcval, handler |-> NoHandler]
DispAt(pcval) ==
    [pc |-> pcval, payload |-> NoPayload, event |-> NoEvent,
     handlers |-> <<>>, exists |-> FALSE, hstate |-> <<>>, started |-> <<>>,
     errChan |-> <<>>, i |-> 0, errs |-> <<>>, ret |-> NilErr,
     atLookup |-> <<>>]

WebhookIdle ==
    /\ handlers = EmptyMap
    /\ wmu = MuFree
    /\ reg = [r \in Registrars |-> RegAt("off")]
    /\ disp = [d \in Dispatchers |-> DispAt("off")]
    /\ registered = <<>>

\* A WebhookServer nobody posts to.
NoHTTPRequest == [Method |-> "none", signature |-> "none", body |-> NoPayload,
                  readable |-> TRUE]
HwAt(pcval) ==
    [pc |-> pcval, r |-> NoHTTPRequest, status |-> 0, dispatched |-> <<>>,
     invoked |-> <<>>]

ServerIdle ==
    /\ ws = [secret |-> "", handlers |-> EmptyMap]
    /\ hw = HwAt("off")

\* A nil *ClientConfig and a nil *rate.Limiter; a client nobody calls.
NilConfig == [nil |-> TRUE]
NilLimiter == [nil |-> TRUE]
NoResult == [val |-> "none", err |-> NilErr]
TxAt(pcval) ==
    [pc |-> pcval, op |-> "none", trace |-> <<>>, tokens |-> 0, ret |-> NoResult]

ClientIdle ==
    /\ client = [config |-> NilConfig, limiter |-> NilLimiter, middleware |-> <<>>]
    /\ tx = TxAt("off")
    /\ enabled = [count |-> 0, first |-> <<>>]

\* A nil *OAuth2Config; no OAuth2 method called.
NilOAuth2 == [nil |-> TRUE]
NoOAuth2Call == [method |-> "none", ret |-> NoResult, sent |-> <<>>]

OAuthIdle ==
    /\ oconfig = NilConfig
    /\ ocall = NoOAuth2Call

\* make(map[string]importers.Importer); no call made.
NoImporter == [name |-> "none", valid |-> FALSE]
NoImporterCall ==
    [method |-> "none", arg |-> "none", val |-> NoImporter, list |-> <<>>,
     err |-> NilErr]

ImporterIdle ==
    /\ importers = EmptyMap
    /\ icall = NoImporterCall
    /\ accepted = {}

\* NewBaseImporter(): progress is &ImportProgress{}, everything else zero.
NilProgress == [nil |-> TRUE]
ImportProgress(processed, succeeded, failed, status) ==
    [Processed |-> processed, Succeeded |-> succeeded, Failed |-> failed,
     Status |-> status]
NewBaseImporter ==
    [config |-> "", progress |-> ImportProgress(0, 0, 0, ""), cancelled |-> FALSE,
     ctx |-> "nil", cancelFunc |-> FALSE]
NoHistory == [initialized |-> FALSE, cancelPending |-> FALSE]

BaseIdle ==
    /\ base = NewBaseImporter
    /\ history = NoHistory

AppIdle == ServerIdle /\ ClientIdle /\ OAuthIdle /\ ImporterIdle /\ BaseIdle
ExtIdle == ChainIdle /\ LimiterIdle /\ RetryMwIdle /\ WebhookIdle /\ AppIdle
LibIdle ==
    /\ RetryIdle /\ BackoffIdle /\ ClassifyIdle
    /\ ChainIdle /\ LimiterIdle /\ RetryMwIdle /\ WebhookIdle

\* A caller holds a client and a context and is about to call RetryOperation.
Init ==
    /\ config \in Configs
    /\ opScript \in Scripts
    /\ ctxState = "active"
    /\ pc = "idle"
    /\ attempt = 0
    /\ lastErr = NilErr
    /\ result = NilErr
    /\ invocations = 0
    /\ waited = <<>>
    /\ cancelAt = NotFired
    /\ BackoffIdle
    /\ ClassifyIdle
    /\ ExtIdle

\* The caller's context is cancelled, or its deadline passes, at any moment
\* before RetryOperation has returned.
Cancel ==
    /\ pc \in {"idle", "loop", "running", "waiting"}
    /\ ctxState = "active"
    /\ \E e \in {"Canceled", "DeadlineExceeded"} : ctxState' = e
    /\ cancelAt' = [pc |-> pc, invocations |-> invocations]
    /\ UNCHANGED <<config, opScript, pc, attempt, lastErr, result, invocations, waited>>

\* RetryOperation is entered: var lastErr error; attempt := 0.
Call ==
    /\ pc = "idle"
    /\ pc' = "loop"
    /\ attempt' = 0
    /\ lastErr' = NilErr
    /\ UNCHANGED <<config, opScript, ctxState, result, invocations, waited, cancelAt>>

\* The loop condition attempt <= MaxRetries is false: return lastErr.
LoopExit ==
    /\ pc = "loop"
    /\ ~(attempt <= retryConfig.MaxRetries)
    /\ result' = lastErr
    /\ pc' = "done"
    /\ UNCHANGED <<config, opScript, ctxState, attempt, lastErr, invocations, waited, cancelAt>>

\* select { case <-ctx.Done(): return ctx.Err() ... } at the top of the loop.
CheckCancelled ==
    /\ pc = "loop"
    /\ attempt <= retryConfig.MaxRetries
    /\ ctxState # "active"
    /\ result' = CtxErr
    /\ pc' = "done"
    /\ UNCHANGED <<config, opScript, ctxState, attempt, lastErr, invocations, waited, cancelAt>>

\* Invoke without the look at ctx.Done() before it.
Invoke_WithoutCtxCheck ==
    /\ pc = "loop"
    /\ attempt <= retryConfig.MaxRetries
    /\ invocations' = invocations + 1
    /\ pc' = "running"
    /\ UNCHANGED <<config, opScript, ctxState, attempt, lastErr, result, waited, cancelAt>>

\* The default branch of that select: operation(ctx) is called.  The look at
\* ctx.Done() and the call it falls through to are one step: the invocation
\* starts at the select.
Invoke ==
    /\ pc = "loop"
    /\ attempt <= retryConfig.MaxRetries
    /\ ctxState = "active"
    /\ invocations' = invocations + 1
    /\ pc' = "running"
    /\ UNCHANGED <<config, opScript, ctxState, attempt, lastErr, result, waited, cancelAt>>

\* OpReturn without "if attempt == retryConfig.MaxRetries { break }".
OpReturn_NoLastAttemptBreak ==
    /\ pc = "running"
    /\ LET err == OpOutcome(invocations) IN
         IF err = NilErr
         THEN /\ result' = NilErr
              /\ pc' = "done"
              /\ UNCHANGED <<lastErr, waited>>
         ELSE /\ lastErr' = err
              /\ IF ~isRetryableError(retryConfig, err)
                 THEN /\ result' = err
                      /\ pc' = "done"
                      /\ UNCHANGED waited
                 ELSE /\ \E u \in 0..(JitterSteps - 1) :
                            waited' = Append(waited,
                                        calculateBackoffDelay(retryConfig, attempt, u))
                      /\ pc' = "waiting"
                      /\ UNCHANGED result
    /\ UNCHANGED <<config, opScript, ctxState, attempt, invocations, cancelAt>>

\* OpReturn without "if !retryConfig.isRetryableError(err) { return err }".
OpReturn_NoRetryableCheck ==
    /\ pc = "running"
    /\ LET err == OpOutcome(invocations) IN
         IF err = NilErr
         THEN /\ result' = NilErr
              /\ pc' = "done"
              /\ UNCHANGED <<lastErr, waited>>
         ELSE /\ lastErr' = err
              /\ IF attempt = retryConfig.MaxRetries
                 THEN /\ result' = err
                      /\ pc' = "done"
                      /\ UNCHANGED waited
                 ELSE /\ \E u \in 0..(JitterSteps - 1) :
                            waited' = Append(waited,
                                        calculateBackoffDelay(retryConfig, attempt, u))
                      /\ pc' = "waiting"
                      /\ UNCHANGED result
    /\ UNCHANGED <<config, opScript, ctxState, attempt, invocations, cancelAt>>

\* operation(ctx) returns err: success, last attempt, not retryable, or the
\* backoff delay is computed and the wait begins.
OpReturn ==
    /\ pc = "running"
    /\ LET err == OpOutcome(invocations) IN
         IF err = NilErr
         THEN /\ result' = NilErr
              /\ pc' = "done"
              /\ UNCHANGED <<lastErr, waited>>
         ELSE /\ lastErr' = err
              /\ IF attempt = retryConfig.MaxRetries
                 THEN /\ result' = err          \* break; return lastErr
                      /\ pc' = "done"
                      /\ UNCHANGED waited
                 ELSE IF ~isRetryableError(retryConfig, err)
                 THEN /\ result' = err
                      /\ pc' = "done"
                      /\ UNCHANGED waited
                 ELSE /\ \E u \in 0..(JitterSteps - 1) :
                            waited' = Append(waited,
                                        calculateBackoffDelay(retryConfig, attempt, u))
                      /\ pc' = "waiting"
                      /\ UNCHANGED result
    /\ UNCHANGED <<config, opScript, ctxState, attempt, invocations, cancelAt>>

\* WaitElapsed with the counter advanced twice.
WaitElapsed_SkipsAnAttempt ==
    /\ pc = "waiting"
    /\ attempt' = attempt + 2
    /\ pc' = "loop"
    /\ UNCHANGED <<config, opScript, ctxState, lastErr, result, invocations, waited, cancelAt>>

\* select: case <-time.After(delay): the loop goes on with attempt++.
WaitElapsed ==
    /\ pc = "waiting"
    /\ attempt' = attempt + 1
    /\ pc' = "loop"
    /\ UNCHANGED <<config, opScript, ctxState, lastErr, result, invocations, waited, cancelAt>>

\* WaitCancelled returning the stale operation error.
WaitCancelled_ReturnsLastErr ==
    /\ pc = "waiting"
    /\ ctxState # "active"
    /\ result' = lastErr
    /\ pc' = "done"
    /\ UNCHANGED <<config, opScript, ctxState, attempt, lastErr, invocations, waited, cancelAt>>

\* select: case <-ctx.Done(): return ctx.Err().
WaitCancelled ==
    /\ pc = "waiting"
    /\ ctxState # "active"
    /\ result' = CtxErr
    /\ pc' = "done"
    /\ UNCHANGED <<config, opScript, ctxState, attempt, lastErr, invocations, waited, cancelAt>>

Next ==
    \/ (Cancel /\ UNCHANGED <<backoffVars, classifyVars, extVars>>)
    \/ (Call /\ UNCHANGED <<backoffVars, classifyVars, extVars>>)
    \/ (LoopExit /\ UNCHANGED <<backoffVars, classifyVars, extVars>>)
    \/ (CheckCancelled /\ UNCHANGED <<backoffVars, classifyVars, extVars>>)
    \/ (Invoke /\ UNCHANGED <<backoffVars, classifyVars, extVars>>)
    \/ (OpReturn /\ UNCHANGED <<backoffVars, classifyVars, extVars>>)
    \/ (WaitElapsed /\ UNCHANGED <<backoffVars, classifyVars, extVars>>)
    \/ (WaitCancelled /\ UNCHANGED <<backoffVars, classifyVars, extVars>>)

Spec == Init /\ [][Next]_vars

\* ------------------------------------------------- claims on RetryOperation
MaxRetries == retryConfig.MaxRetries

\* C1: for maxRetries >= 0 and whatever the operation returns, the attempt
\* counter never exceeds maxRetries and the operation is invoked at most
\* maxRetries + 1 times.
C1_AttemptsBounded ==
    MaxRetries >= 0 => (attempt <= MaxRetries /\ invocations <= MaxRetries + 1)

\* C1 witness: a call that used every attempt, with at least one retry.
C1_AllAttemptsUsed ==
    /\ pc = "done"
    /\ MaxRetries >= 1
    /\ attempt = MaxRetries
    /\ invocations = MaxRetries + 1

\* C3: when the cancellation has fired by the time RetryOperation stands before
\* an attempt, that step returns ctx.Err() without invoking the operation; and
\* no step taken after the cancellation fired starts an invocation.
C3_NoInvocationOnceCancelled ==
    [][ /\ (ctxState # "active" => invocations' = invocations)
        /\ (pc = "loop" /\ attempt <= MaxRetries /\ ctxState # "active")
              => (pc' = "done" /\ result' = CtxErr) ]_vars

\* C3 witness: the cancellation fired before a later attempt (the operation
\* had failed with another error) and RetryOperation returned ctx.Err().
C3_CancelledBeforeLaterAttempt ==
    /\ pc = "done"
    /\ cancelAt.pc = "loop"
    /\ cancelAt.invocations >= 1
    /\ invocations = cancelAt.invocations
    /\ result = CtxErr
    /\ lastErr # CtxErr

\* C4: when the cancellation fires during a backoff wait, no further invocation
\* happens and what RetryOperation returns is ctx.Err(), not lastErr.
C4_CancelDuringWait ==
    cancelAt.pc = "waiting" =>
        /\ invocations = cancelAt.invocations
        /\ pc # "running"
        /\ (pc = "done" => result = CtxErr)

\* C4 witness: cancelled in a wait after an operation error other than ctx.Err().
C4_ReturnedCancellationFromWait ==
    /\ pc = "done"
    /\ cancelAt.pc = "waiting"
    /\ result = CtxErr
    /\ lastErr # CtxErr
    /\ lastErr # NilErr

\* The operation fails on every invocation with an error isRetryableError rejects.
AlwaysNonRetryable ==
    \A k \in 1..ScriptLen :
        opScript[k] # NilErr /\ ~isRetryableError(retryConfig, opScript[k])

\* C5 as stated: an operation that always fails with a non-retryable error is
\* invoked exactly once, no delay is waited, and its failure is returned.
C5_Original ==
    (pc = "done" /\ MaxRetries >= 0 /\ AlwaysNonRetryable)
        => (invocations = 1 /\ waited = <<>> /\ result = opScript[1])

\* C5 amended: the same, provided the caller's cancellation had not fired
\* before the first invocation.
C5_Amended ==
    (pc = "done" /\ MaxRetries >= 0 /\ AlwaysNonRetryable
        /\ (cancelAt = NotFired \/ cancelAt.invocations >= 1))
        => (invocations = 1 /\ waited = <<>> /\ result = opScript[1])

\* C5 witness: retries were available and the single failure was returned.
C5_SingleInvocation ==
    /\ pc = "done"
    /\ MaxRetries >= 1
    /\ AlwaysNonRetryable
    /\ invocations = 1
    /\ waited = <<>>
    /\ result = opScript[1]

\* The operation fails retryably on its first MaxRetries invocations and
\* succeeds on the next one.
RetryableThenSuccess ==
    /\ MaxRetries >= 0
    /\ MaxRetries + 1 <= ScriptLen
    /\ \A k \in 1..MaxRetries :
           opScript[k] # NilErr /\ isRetryableError(retryConfig, opScript[k])
    /\ opScript[MaxRetries + 1] = NilErr

\* C6: with such an operation and no cancellation, RetryOperation returns
\* success after exactly maxRetries + 1 invocations.
C6_SucceedsOnLastAttempt ==
    (pc = "done" /\ RetryableThenSuccess /\ ctxState = "active")
        => (result = NilErr /\ invocations = MaxRetries + 1
            /\ Len(waited) = MaxRetries)

\* C6 witness: two or more retryable failures, then success.
C6_SuccessAfterRetries ==
    /\ pc = "done"
    /\ RetryableThenSuccess
    /\ MaxRetries >= 2
    /\ ctxState = "active"
    /\ result = NilErr
    /\ invocations = MaxRetries + 1

\* ------------------------------------------------- calculateBackoffDelay
\* The RetryConfigs calculateBackoffDelay is applied to.  RetryOperation and
\* EnableDefaultMiddleware build theirs from ClientConfig.RetryDelay with
\* MaxDelay 30 s, so InitialDelay may lie above MaxDelay.
BackoffConfigs ==
    [MaxRetries      : {MaxAttempt},
     InitialDelay    : {0, 100, Second, 45 * Second, 60 * Second},
     MaxDelay        : {Second, DefaultMaxDelaySec * Second},
     BackoffFactor   : {<<1, 1>>, <<3, 2>>, <<2, 1>>},
     RetryableErrors : {DefaultRetryableErrors}]

InitBackoff ==
    /\ bcfg \in BackoffConfigs
    /\ battempt = 0
    /\ bdelay = NoDelay
    /\ RetryIdle
    /\ ClassifyIdle
    /\ ExtIdle

\* delay := bcfg.calculateBackoffDelay(attempt) for an attempt of the loop.
CalculateBackoff ==
    /\ \E a \in 0..bcfg.MaxRetries, u \in 0..(JitterSteps - 1) :
          /\ battempt' = a
          /\ bdelay' = calculateBackoffDelay(bcfg, a, u)
    /\ UNCHANGED bcfg

NextBackoff == CalculateBackoff /\ UNCHANGED <<retryVars, classifyVars, extVars>>

SpecBackoff == InitBackoff /\ [][NextBackoff]_vars

\* C2: every delay calculateBackoffDelay returns for an attempt in
\* [0, maxRetries] is at most maxDelay x 1.1 and at least
\* 0.9 x min(initialDelay x backoffFactor^attempt, maxDelay).
C2_DelayWithinBounds ==
    bdelay # NoDelay =>
        LET planned == PlannedDelay(bcfg, battempt)
        IN  /\ 10 * bdelay <= 11 * bcfg.MaxDelay
            /\ 10 * bdelay * planned[2] >= 9 * planned[1]

\* ------------------------------------- the classifier and isRetryableError
Statuses == {400, StatusUnauthorized, StatusForbidden, StatusNotFound,
             StatusRequestTimeout, StatusConflict, 418, StatusTooManyRequests,
             StatusInternalServerError, 501, StatusBadGateway,
             StatusServiceUnavailable, StatusGatewayTimeout, 599}
Methods == {"GET"}
URLs == {PlainURL, <<"api", "v1", "tags", ErrServerError>>}
HeaderSets == {{}, {"X-Request-ID", "Server"}}

ClassifyConfigs ==
    {DefaultRetryConfig, [DefaultRetryConfig EXCEPT !.RetryableErrors = <<>>]}

InitClassify ==
    /\ rcfg \in ClassifyConfigs
    /\ render \in SUBSET RenderParts
    /\ classified = NotClassified
    /\ checked = NotChecked
    /\ RetryIdle
    /\ BackoffIdle
    /\ ExtIdle

\* HTTPErrorFromResponse(resp, method, url) on an error response.
ClassifyResponse ==
    /\ \E st \in Statuses, h \in HeaderSets, m \in Methods, url \in URLs :
          classified' = [resp |-> [StatusCode |-> st, Header |-> h],
                         err  |-> HTTPErrorFromResponse(
                                     [StatusCode |-> st, Header |-> h], m, url)]
    /\ checked' = NotChecked
    /\ UNCHANGED <<rcfg, render>>

\* ContextErr(err) on a context error.
ClassifyContext ==
    /\ \E e \in {ContextCanceled, ContextDeadlineExceeded} :
          classified' = [resp |-> NoResponse, err |-> ContextErr(e)]
    /\ checked' = NotChecked
    /\ UNCHANGED <<rcfg, render>>

\* rcfg.isRetryableError(err) on nil, on the classified error, or on the bare
\* error it wraps (the *HTTPError or the context sentinel).
CheckRetryable ==
    /\ \E e \in {NilErr}
                \cup (IF classified = NotClassified THEN {}
                      ELSE {classified.err, classified.err.Cause}) :
          checked' = [err |-> e, retryable |-> isRetryableError(rcfg, e),
                      called |-> TRUE]
    /\ UNCHANGED <<rcfg, render, classified>>

NextClassify ==
    \/ (ClassifyResponse /\ UNCHANGED <<retryVars, backoffVars, extVars>>)
    \/ (ClassifyContext /\ UNCHANGED <<retryVars, backoffVars, extVars>>)
    \/ (CheckRetryable /\ UNCHANGED <<retryVars, backoffVars, extVars>>)

SpecClassify == InitClassify /\ [][NextClassify]_vars

\* The kind an error is classified as: that of its constructor, read off the
\* errbuilder code; a bare *HTTPError or context error has the kind of its
\* classification.
KindOfCode(code) ==
    CASE code = "CodeUnauthenticated"   -> "auth"
      [] code = "CodePermissionDenied"  -> "authorization"
      [] code = "CodeNotFound"          -> "not-found"
      [] code = "CodeAlreadyExists"     -> "duplicate"
      [] code = "CodeResourceExhausted" -> "rate-limit"
      [] code = "CodeInternal"          -> "server"
      [] code = "CodeInvalidArgument"   -> "client"
      [] code = "CodeDeadlineExceeded"  -> "timeout"
      [] code = "CodeCanceled"          -> "cancelled"
      [] code = "CodeUnavailable"       -> "network"
      [] OTHER                          -> "none"

Kind(e) ==
    CASE e.type = "ErrBuilder" -> KindOfCode(e.Code)
      [] e.type = "HTTPError"  ->
           KindOfCode(HTTPErrorFromResponse(
               [StatusCode |-> e.StatusCode, Header |-> {}], e.Method, e.URL).Code)
      [] e.type = "context"    -> KindOfCode(ContextErr(e).Code)
      [] OTHER                 -> "none"

\* The kind each RetryableErrors entry names.
KindOfRetryable(x) ==
    CASE x = ErrNetwork     -> "network"
      [] x = ErrTimeout     -> "timeout"
      [] x = ErrServerError -> "server"
      [] x = ErrRateLimit   -> "rate-limit"
      [] OTHER              -> "none"

RetryableKinds(r) ==
    {KindOfRetryable(r.RetryableErrors[i]) : i \in 1..Len(r.RetryableErrors)}

\* C7 as stated: isRetryableError returns true only for a failure whose kind is
\* among the config's retryable kinds; with the empty set nothing is retried.
C7_Original ==
    (checked.called /\ checked.retryable)
        => Kind(checked.err) \in RetryableKinds(rcfg)

\* C7 amended: isRetryableError returns true only if the error is a bare
\* *HTTPError with status 408, 429, 500, 502, 503 or 504, or is
\* context.DeadlineExceeded or context.Canceled, or its text contains one of the
\* config's RetryableErrors strings; with the empty set only the first two
\* classes are retried, and nil never is.
C7_Amended ==
    (checked.called /\ checked.retryable) =>
        /\ checked.err # NilErr
        /\ \/ (checked.err.type = "HTTPError"
                 /\ checked.err.StatusCode \in {408, 429, 500, 502, 503, 504})
           \/ checked.err \in {ContextCanceled, ContextDeadlineExceeded}
           \/ (rcfg.RetryableErrors # <<>>
                 /\ \E i \in 1..Len(rcfg.RetryableErrors) :
                       Contains(ErrorString(checked.err), rcfg.RetryableErrors[i]))

\* C7 witness: with the empty set a bare HTTP 500 is found retryable.
C7_RetriedUnderEmptySet ==
    /\ checked.called
    /\ checked.retryable
    /\ rcfg.RetryableErrors = <<>>
    /\ checked.err.type = "HTTPError"
    /\ checked.err.StatusCode = StatusInternalServerError

\* The kind the mapping of the specification gives an HTTP error status.
ExpectedKind(st) ==
    CASE st = 401 -> "auth"
      [] st = 403 -> "authorization"
      [] st = 404 -> "not-found"
      [] st = 409 -> "duplicate"
      [] st = 429 -> "rate-limit"
      [] st \in {500, 502, 503, 504} -> "server"
      [] st = 408 -> "timeout"
      [] OTHER -> IF st >= 400 /\ st < 500 THEN "client" ELSE "server"

\* C9: HTTPErrorFromResponse gives every HTTP error status the kind of that
\* mapping, and the classified error's cause is the HTTP error.
C9_StatusMapping ==
    classified.resp # NoResponse =>
        /\ Kind(classified.err) = ExpectedKind(classified.resp.StatusCode)
        /\ classified.err.Cause.type = "HTTPError"
        /\ classified.err.Cause.StatusCode = classified.resp.StatusCode

\* C10: under the default config the classified error of a 429 is of kind
\* rate-limit and retryable, that of a 404 is of kind not-found and not
\* retryable whatever its URL; a bare HTTP 500 is retryable and nil is not.
C10_DefaultConfigVerdicts ==
    rcfg = DefaultRetryConfig =>
        /\ classified.resp.StatusCode = StatusTooManyRequests =>
              /\ Kind(classified.err) = "rate-limit"
              /\ (checked.called /\ checked.err = classified.err) => checked.retryable
        /\ classified.resp.StatusCode = StatusNotFound =>
              /\ Kind(classified.err) = "not-found"
              /\ (checked.called /\ checked.err = classified.err) => ~checked.retryable
        /\ (checked.called /\ checked.err.type = "HTTPError"
              /\ checked.err.StatusCode = StatusInternalServerError) => checked.retryable
        /\ (checked.called /\ checked.err = NilErr) => ~checked.retryable

\* ----------------------------------------------------- context cancellation
\* C8 as stated: a context cancellation is not retryable, so RetryOperation
\* neither waits to retry nor re-invokes the operation after the operation
\* returned context.Canceled.
C8_Original ==
    /\ (pc = "waiting" => lastErr # ContextCanceled)
    /\ \A k \in 1..(invocations - 1) : OpOutcome(k) # ContextCanceled

\* C8 amended: ContextErr classifies a context cancellation as cancelled, but
\* isRetryableError returns true for context.Canceled under the default config
\* (as under the empty set), and RetryOperation returns the operation's
\* context.Canceled without a retry only on the last attempt (otherwise it
\* waits and, unless the caller's own context has fired, invokes the operation
\* again).
C8_Amended ==
    /\ Kind(ContextErr(ContextCanceled)) = "cancelled"
    /\ isRetryableError(DefaultRetryConfig, ContextCanceled)
    /\ isRetryableError([DefaultRetryConfig EXCEPT !.RetryableErrors = <<>>],
                        ContextCanceled)
    /\ (pc = "done" /\ ctxState = "active" /\ result = ContextCanceled)
          => attempt = MaxRetries
    /\ (pc = "loop" /\ attempt > 0 /\ lastErr = ContextCanceled /\ ctxState = "active")
          => ENABLED Invoke

\* C8 witness: the operation returned context.Canceled, the caller's context
\* was still live, and the operation was invoked again.
C8_ReinvokedAfterCanceled ==
    /\ invocations >= 2
    /\ OpOutcome(1) = ContextCanceled
    /\ ctxState = "active"

\* ===================================================== the middleware layer
\* MaxMiddlewares bounds the length the chain grows to.
MaxMiddlewares == 2

\* A request is [Method, URL, marks] and a response [StatusCode, Request,
\* marks]: marks lists the middlewares that replaced the message on its way.
Requests == {[Method |-> "GET", URL |-> PlainURL, marks |-> <<>>]}
Responses ==
    [StatusCode : {200, StatusInternalServerError}, Request : Requests,
     marks : {<<>>}]

\* The Middleware values handed to Add: the three of the package, and two
\* implementations of the interface by the caller, which return a new
\* message (marked with their name) or fail as their fields say.
LoggingMiddleware   == [kind |-> "logging", name |-> "logging"]
RateLimitMiddleware == [kind |-> "ratelimit", name |-> "ratelimit"]
NewRetryMiddleware(retryCfg) ==
    [kind |-> "retry", name |-> "retry", config |-> retryCfg]
CallerMiddleware(n, fails) ==
    [kind |-> "caller", name |-> n, fails |-> fails]
MiddlewarePool ==
    {LoggingMiddleware, RateLimitMiddleware,
     NewRetryMiddleware(DefaultRetryConfig),
     CallerMiddleware("A", FALSE), CallerMiddleware("B", TRUE)}

\* fmt.Errorf("rate limit wait failed: %w", err)
RateLimitWaitFailed(err) ==
    [type |-> "wrapped", Msg |-> <<"rate", "limit", "wait", "failed">>,
     Cause |-> err]
CallerMiddlewareErr(n) == [type |-> "caller", name |-> n]

\* (l *LoggingMiddleware) ProcessRequest / ProcessResponse: log, pass through.
LoggingMiddleware_Process(msg) == [val |-> msg, err |-> NilErr]

\* RateLimitMiddleware.ProcessRequest that forwards the request although the
\* limiter's Wait failed.
RateLimitMiddleware_ProcessRequest_DropsWaitError(req, waitErr) ==
    [val |-> req, err |-> NilErr]

\* (r *RateLimitMiddleware) ProcessRequest, waitErr being what
\* r.limiter.Wait(ctx) returned.
RateLimitMiddleware_ProcessRequest(req, waitErr) ==
    IF waitErr # NilErr
    THEN [val |-> NoMessage, err |-> RateLimitWaitFailed(waitErr)]
    ELSE [val |-> req, err |-> NilErr]

\* (r *RateLimitMiddleware) ProcessResponse
RateLimitMiddleware_ProcessResponse(resp) == [val |-> resp, err |-> NilErr]

\* (r *RetryMiddleware) ProcessRequest
RetryMiddleware_ProcessRequest(req) == [val |-> req, err |-> NilErr]

\* (r *RetryMiddleware) ProcessResponse with r.config = retryCfg.
RetryMiddleware_ProcessResponse(retryCfg, resp) ==
    LET httpErr == NewHTTPError(resp.StatusCode, resp.Request.Method,
                                resp.Request.URL)
    IN  IF resp.StatusCode >= 400 /\ isRetryableError(retryCfg, httpErr)
        THEN [val |-> NoMessage, err |-> httpErr]
        ELSE [val |-> resp, err |-> NilErr]

\* A Middleware written by the caller.
CallerMiddleware_Process(mw, msg) ==
    IF mw.fails
    THEN [val |-> NoMessage, err |-> CallerMiddlewareErr(mw.name)]
    ELSE [val |-> [msg EXCEPT !.marks = Append(@, mw.name)], err |-> NilErr]

\* middleware.ProcessRequest(ctx, req), dispatched on the dynamic type.
Middleware_ProcessRequest(mw, req, waitErr) ==
    CASE mw.kind = "logging"   -> LoggingMiddleware_Process(req)
      [] mw.kind = "ratelimit" -> RateLimitMiddleware_ProcessRequest(req, waitErr)
      [] mw.kind = "retry"     -> RetryMiddleware_ProcessRequest(req)
      [] OTHER                 -> CallerMiddleware_Process(mw, req)

\* middleware.ProcessResponse(ctx, resp), dispatched on the dynamic type.
Middleware_ProcessResponse(mw, resp) ==
    CASE mw.kind = "logging"   -> LoggingMiddleware_Process(resp)
      [] mw.kind = "ratelimit" -> RateLimitMiddleware_ProcessResponse(resp)
      [] mw.kind = "retry"     -> RetryMiddleware_ProcessResponse(mw.config, resp)
      [] OTHER                 -> CallerMiddleware_Process(mw, resp)

\* What limiter.Wait(ctx) returns to the rate-limiting middleware: nil, or
\* the error of a context that fired or whose deadline is too near.
WaitErrors == {NilErr, ContextDeadlineExceeded}

\* ---------------------------------------------------------- MiddlewareChain
\* NewMiddlewareChain(), with the goroutines that share it about to call it.
InitChain ==
    /\ middlewares = <<>>
    /\ mu = MuFree
    /\ gor = [g \in Goroutines |-> GorAt("idle")]
    /\ added = <<>>
    /\ RetryIdle
    /\ BackoffIdle
    /\ ClassifyIdle
    /\ LimiterIdle
    /\ RetryMwIdle
    /\ WebhookIdle
    /\ AppIdle

\* sync.RWMutex: Lock is granted when nobody holds the mutex; RLock when no
\* writer holds it and no Lock call is blocked on it.
CanLock_IgnoresReaders == mu.writer = NoGoroutine
CanLock == mu.writer = NoGoroutine /\ mu.readers = {}
CanRLock_IgnoresPending == mu.writer = NoGoroutine
CanRLock == mu.writer = NoGoroutine /\ mu.pending = {}

\* A goroutine calls m.Add(middleware) and reaches m.mu.Lock().
CallAdd(g) ==
    /\ gor[g].pc = "idle"
    /\ Len(middlewares) + Cardinality(mu.pending)
         + (IF mu.writer = NoGoroutine THEN 0 ELSE 1) < MaxMiddlewares
    /\ \E mw \in MiddlewarePool :
          gor' = [gor EXCEPT ![g] = [GorAt("Lock") EXCEPT !.op = "Add",
                                                          !.middleware = mw]]
    /\ mu' = [mu EXCEPT !.pending = @ \cup {g}]
    /\ UNCHANGED <<middlewares, added>>

\* m.mu.Lock() returns.
AddLock(g) ==
    /\ gor[g].pc = "Lock"
    /\ CanLock
    /\ mu' = [mu EXCEPT !.writer = g, !.pending = @ \ {g}]
    /\ gor' = [gor EXCEPT ![g].pc = "append"]
    /\ UNCHANGED <<middlewares, added>>

\* m.middlewares = append(m.middlewares, middleware)
AddAppend(g) ==
    /\ gor[g].pc = "append"
    /\ middlewares' = Append(middlewares, gor[g].middleware)
    /\ gor' = [gor EXCEPT ![g].pc = "Unlock"]
    /\ UNCHANGED <<mu, added>>

\* The deferred m.mu.Unlock() runs and Add returns.
AddReturn(g) ==
    /\ gor[g].pc = "Unlock"
    /\ mu' = [mu EXCEPT !.writer = NoGoroutine]
    /\ added' = Append(added, gor[g].middleware)
    /\ gor' = [gor EXCEPT ![g].pc = "returned"]
    /\ UNCHANGED middlewares

\* A goroutine calls m.ProcessRequest(ctx, req) and reaches m.mu.RLock().
CallProcessRequest(g) ==
    /\ gor[g].pc = "idle"
    /\ \E req \in Requests :
          gor' = [gor EXCEPT ![g] = [GorAt("RLock") EXCEPT
                                         !.op = "ProcessRequest", !.arg = req]]
    /\ UNCHANGED <<middlewares, mu, added>>

\* A goroutine calls m.ProcessResponse(ctx, resp) and reaches m.mu.RLock().
CallProcessResponse(g) ==
    /\ gor[g].pc = "idle"
    /\ \E resp \in Responses :
          gor' = [gor EXCEPT ![g] = [GorAt("RLock") EXCEPT
                                         !.op = "ProcessResponse", !.arg = resp]]
    /\ UNCHANGED <<middlewares, mu, added>>

\* A goroutine whose ProcessRequest returned a request sends it, receives the
\* response and calls m.ProcessResponse(ctx, resp) for the same outbound
\* call; reqCalls keeps the middlewares whose ProcessRequest ran for it.
SendAndProcessResponse(g) ==
    /\ gor[g].pc = "returned" /\ gor[g].op = "ProcessRequest"
    /\ gor[g].ret.err = NilErr
    /\ \E resp \in Responses :
          gor' = [gor EXCEPT ![g] =
                     [GorAt("RLock") EXCEPT
                          !.op = "ProcessResponse", !.arg = resp,
                          !.sameCall = TRUE,
                          !.reqCalls = [k \in 1..Len(gor[g].calls) |->
                                            gor[g].calls[k].mw]]]
    /\ UNCHANGED <<middlewares, mu, added>>

\* m.mu.RLock() returns; currentReq := req (currentResp := resp) and the loop
\* starts at the first (the last) index.
RLock(g) ==
    /\ gor[g].pc = "RLock"
    /\ CanRLock
    /\ mu' = [mu EXCEPT !.readers = @ \cup {g}]
    /\ gor' = [gor EXCEPT ![g].pc = "loop",
                          ![g].current = gor[g].arg,
                          ![g].i = IF gor[g].op = "ProcessRequest"
                                   THEN 1 ELSE Len(middlewares),
                          ![g].snap = middlewares]
    /\ UNCHANGED <<middlewares, added>>

\* r.limiter.Wait(ctx) finds no token and blocks: the traversal is suspended
\* inside the rate-limiting middleware until StepRequest ends the call.
WaitSuspend(g) ==
    /\ gor[g].pc = "loop" /\ gor[g].op = "ProcessRequest"
    /\ gor[g].i <= Len(middlewares)
    /\ middlewares[gor[g].i].kind = "ratelimit"
    /\ ~gor[g].suspended
    /\ gor' = [gor EXCEPT ![g].suspended = TRUE]
    /\ UNCHANGED <<middlewares, mu, added>>

\* One call of a middleware by a traversal: the middleware, what it was
\* given and what it returned.
CallRecord(mw, given, r) == [mw |-> mw, arg |-> given, out |-> r.val, err |-> r.err]

\* What a loop iteration leaves in the goroutine: on an error the deferred
\* RUnlock runs and (nil, err) is returned, otherwise the loop goes on.
AfterCall(g, mw, r, nexti) ==
    IF r.err # NilErr
    THEN /\ gor' = [gor EXCEPT ![g].pc = "returned",
                              ![g].calls = Append(@, CallRecord(mw, gor[g].current, r)),
                              ![g].ret = [val |-> NoMessage, err |-> r.err],
                              ![g].suspended = FALSE]
         /\ mu' = [mu EXCEPT !.readers = @ \ {g}]
    ELSE /\ gor' = [gor EXCEPT ![g].calls = Append(@, CallRecord(mw, gor[g].current, r)),
                              ![g].current = r.val,
                              ![g].i = nexti,
                              ![g].suspended = FALSE]
         /\ UNCHANGED mu

\* ProcessRequest that goes on with the next middleware after an error.
StepRequest_IgnoresError(g) ==
    /\ gor[g].pc = "loop" /\ gor[g].op = "ProcessRequest"
    /\ gor[g].i <= Len(middlewares)
    /\ \E waitErr \in WaitErrors :
          LET mw == middlewares[gor[g].i]
              r  == Middleware_ProcessRequest(mw, gor[g].current, waitErr)
          IN  gor' = [gor EXCEPT ![g].calls = Append(@, CallRecord(mw, gor[g].current, r)),
                                 ![g].current = IF r.err = NilErr THEN r.val ELSE @,
                                 ![g].i = @ + 1,
                                 ![g].suspended = FALSE]
    /\ UNCHANGED <<middlewares, mu, added>>

\* One iteration of  for _, middleware := range m.middlewares  in
\* ProcessRequest.
StepRequest(g) ==
    /\ gor[g].pc = "loop" /\ gor[g].op = "ProcessRequest"
    /\ gor[g].i <= Len(middlewares)
    /\ \E waitErr \in WaitErrors :
          LET mw == middlewares[gor[g].i]
          IN  AfterCall(g, mw,
                        Middleware_ProcessRequest(mw, gor[g].current, waitErr),
                        gor[g].i + 1)
    /\ UNCHANGED <<middlewares, added>>

\* ProcessResponse that hands every middleware the response it was called
\* with and walks the list front to back.
StepResponse_ForwardFromOriginal(g) ==
    /\ gor[g].pc = "loop" /\ gor[g].op = "ProcessResponse"
    /\ gor[g].i >= 1
    /\ LET mw == middlewares[Len(middlewares) + 1 - gor[g].i]
           r  == Middleware_ProcessResponse(mw, gor[g].arg)
       IN  IF r.err # NilErr
           THEN /\ gor' = [gor EXCEPT ![g].pc = "returned",
                              ![g].calls = Append(@, CallRecord(mw, gor[g].arg, r)),
                              ![g].ret = [val |-> NoMessage, err |-> r.err]]
                /\ mu' = [mu EXCEPT !.readers = @ \ {g}]
           ELSE /\ gor' = [gor EXCEPT
                              ![g].calls = Append(@, CallRecord(mw, gor[g].arg, r)),
                              ![g].current = r.val,
                              ![g].i = @ - 1]
                /\ UNCHANGED mu
    /\ UNCHANGED <<middlewares, added>>

\* One iteration of  for i := len(m.middlewares) - 1; i >= 0; i--  in
\* ProcessResponse (i is kept one-based).
StepResponse(g) ==
    /\ gor[g].pc = "loop" /\ gor[g].op = "ProcessResponse"
    /\ gor[g].i >= 1
    /\ LET mw == middlewares[gor[g].i]
       IN  AfterCall(g, mw, Middleware_ProcessResponse(mw, gor[g].current),
                     gor[g].i - 1)
    /\ UNCHANGED <<middlewares, added>>

\* The loop is over: return currentReq, nil (currentResp, nil); the deferred
\* m.mu.RUnlock() runs.
LoopDone(g) ==
    /\ gor[g].pc = "loop"
    /\ IF gor[g].op = "ProcessRequest" THEN gor[g].i > Len(middlewares)
                                       ELSE gor[g].i < 1
    /\ gor' = [gor EXCEPT ![g].pc = "returned",
                          ![g].ret = [val |-> gor[g].current, err |-> NilErr]]
    /\ mu' = [mu EXCEPT !.readers = @ \ {g}]
    /\ UNCHANGED <<middlewares, added>>

\* The goroutine has used what the chain method returned and is ready to
\* call the chain again.
NextCall(g) ==
    /\ gor[g].pc = "returned"
    /\ gor' = [gor EXCEPT ![g] = GorAt("idle")]
    /\ UNCHANGED <<middlewares, mu, added>>

coreVars == <<retryVars, backoffVars, classifyVars>>
otherThanChain == <<coreVars, limiterVars, retryMwVars, webhookVars, appVars>>
otherThanLimiter == <<coreVars, chainVars, retryMwVars, webhookVars, appVars>>
otherThanRetryMw == <<coreVars, chainVars, limiterVars, webhookVars, appVars>>

NextChain ==
    \/ \E g \in Goroutines : CallAdd(g) /\ UNCHANGED otherThanChain
    \/ \E g \in Goroutines : AddLock(g) /\ UNCHANGED otherThanChain
    \/ \E g \in Goroutines : AddAppend(g) /\ UNCHANGED otherThanChain
    \/ \E g \in Goroutines : AddReturn(g) /\ UNCHANGED otherThanChain
    \/ \E g \in Goroutines : CallProcessRequest(g) /\ UNCHANGED otherThanChain
    \/ \E g \in Goroutines : CallProcessResponse(g) /\ UNCHANGED otherThanChain
    \/ \E g \in Goroutines : RLock(g) /\ UNCHANGED otherThanChain
    \/ \E g \in Goroutines : WaitSuspend(g) /\ UNCHANGED otherThanChain
    \/ \E g \in Goroutines : StepRequest(g) /\ UNCHANGED otherThanChain
    \/ \E g \in Goroutines : StepResponse(g) /\ UNCHANGED otherThanChain
    \/ \E g \in Goroutines : LoopDone(g) /\ UNCHANGED otherThanChain
    \/ \E g \in Goroutines : NextCall(g) /\ UNCHANGED otherThanChain

SpecChain == InitChain /\ [][NextChain]_vars

\* The steps a goroutine inside Add or inside a traversal takes by itself:
\* a Lock or RLock that can be granted is granted, a middleware call returns,
\* a deferred unlock runs.
Progress(g) ==
    /\ \/ AddLock(g) \/ AddAppend(g) \/ AddReturn(g)
       \/ RLock(g) \/ StepRequest(g) \/ StepResponse(g) \/ LoopDone(g)
    /\ UNCHANGED otherThanChain

\* The chain with goroutines that are scheduled and middleware calls that
\* return.
SpecChainFair == SpecChain /\ \A g \in Goroutines : WF_vars(Progress(g))

\* The chain with goroutines that also make whole outbound calls:
\* ProcessRequest, the transport, then ProcessResponse for the same call.
NextChainCall ==
    \/ NextChain
    \/ \E g \in Goroutines : SendAndProcessResponse(g) /\ UNCHANGED otherThanChain

SpecChainCall == InitChain /\ [][NextChainCall]_vars

\* ------------------------------------------------ claims on MiddlewareChain
\* The goroutines inside, or back from, a traversal.
Traversing(g) ==
    gor[g].op \in {"ProcessRequest", "ProcessResponse"}
        /\ gor[g].pc \in {"loop", "returned"}

\* The list a traversal is to visit, in visiting order: the chain as it stood
\* when the read lock was granted, reversed for ProcessResponse.
RECURSIVE Reverse(_)
Reverse(sq) ==
    IF sq = <<>> THEN <<>> ELSE Append(Reverse(Tail(sq)), Head(sq))
VisitOrder(g) ==
    IF gor[g].op = "ProcessRequest" THEN gor[g].snap ELSE Reverse(gor[g].snap)

\* C11: for a chain whose middlewares were added in the order m1..mn,
\* ProcessRequest calls m1..mn in insertion order and ProcessResponse mn..m1
\* in reverse insertion order; the first middleware called receives the
\* caller's request (response), each later one what the previously called
\* one returned, and a traversal nobody failed returns what the last one
\* returned.
C11_TraversalOrder ==
    \A g \in Goroutines :
        Traversing(g) =>
            LET c == gor[g].calls
                order == VisitOrder(g)
            IN  /\ Len(c) <= Len(order)
                /\ \A k \in 1..Len(c) :
                      /\ c[k].mw = order[k]
                      /\ c[k].arg = IF k = 1 THEN gor[g].arg ELSE c[k - 1].out
                /\ (gor[g].pc = "returned" /\ gor[g].ret.err = NilErr) =>
                      /\ Len(c) = Len(order)
                      /\ gor[g].ret.val =
                            IF c = <<>> THEN gor[g].arg ELSE c[Len(c)].out

\* A ProcessResponse over two different middlewares has returned, the first
\* one called having replaced the response.
C11_ReverseTraversalDone ==
    \E g \in Goroutines :
        /\ gor[g].op = "ProcessResponse" /\ gor[g].pc = "returned"
        /\ Len(gor[g].calls) = 2
        /\ gor[g].snap[1] # gor[g].snap[2]
        /\ gor[g].calls[1].mw = gor[g].snap[2]
        /\ gor[g].calls[2].arg # gor[g].arg

\* C12: when a middleware's ProcessRequest (ProcessResponse) fails, the
\* traversal calls no middleware after it and returns that error with a nil
\* request (response); so a failed limiter wait in the rate-limiting
\* middleware ends ProcessRequest before any later middleware runs and leaves
\* the caller no request to send.
C12_ErrorAborts ==
    \A g \in Goroutines :
        Traversing(g) =>
            LET c == gor[g].calls
            IN  /\ \A k \in 1..(Len(c) - 1) : c[k].err = NilErr
                /\ (c # <<>> /\ c[Len(c)].err # NilErr) =>
                      /\ gor[g].pc = "returned"
                      /\ gor[g].ret = [val |-> NoMessage, err |-> c[Len(c)].err]
                /\ (gor[g].pc = "returned" /\ gor[g].ret.err # NilErr) =>
                      /\ c # <<>>
                      /\ c[Len(c)].err = gor[g].ret.err

\* A ProcessRequest has returned the rate-limiting middleware's failure with
\* a middleware behind it left uncalled.
C12_AbortedAtRateLimit ==
    \E g \in Goroutines :
        /\ gor[g].op = "ProcessRequest" /\ gor[g].pc = "returned"
        /\ gor[g].ret.err = RateLimitWaitFailed(ContextDeadlineExceeded)
        /\ gor[g].calls[Len(gor[g].calls)].mw = RateLimitMiddleware
        /\ Len(gor[g].calls) < Len(gor[g].snap)

IsPrefix(sq, tq) ==
    Len(sq) <= Len(tq) /\ \A k \in 1..Len(sq) : sq[k] = tq[k]

\* The Add calls inside their critical section.
Appending == {g \in Goroutines : gor[g].op = "Add" /\ gor[g].pc = "Unlock"}

C13_ListIntact ==
    /\ middlewares =
          IF Appending = {} THEN added
          ELSE Append(added, gor[CHOOSE g \in Appending : TRUE].middleware)
    /\ Cardinality(Appending) <= 1
    /\ \A g \in Goroutines :
          /\ (Traversing(g) /\ gor[g].pc = "loop") => middlewares = gor[g].snap
          /\ (Traversing(g) /\ gor[g].pc = "returned" /\ gor[g].ret.err = NilErr) =>
                [k \in 1..Len(gor[g].calls) |-> gor[g].calls[k].mw] = VisitOrder(g)

C13_AppendOnly ==
    /\ IsPrefix(middlewares, middlewares')
    /\ IsPrefix(added, added')

\* C13: under any interleaving of concurrent Add, ProcessRequest and
\* ProcessResponse calls no Add is lost: the list is always the middlewares
\* of the Adds that returned, in the order they took effect (plus the one
\* being appended under the write lock), it only ever grows at its end, it
\* does not change while a traversal is in progress, and a traversal that
\* nobody failed has visited exactly the list of the instant its read lock
\* was granted.
C13_NoCorruption == [][C13_AppendOnly]_vars /\ []C13_ListIntact

\* An Add is blocked in Lock behind a traversal that has called a middleware
\* and holds the read lock, after an earlier Add has returned.
C13_AddBlockedByTraversal ==
    \E g, h \in Goroutines :
        /\ added # <<>>
        /\ Traversing(g) /\ gor[g].pc = "loop" /\ gor[g].calls # <<>>
        /\ gor[h].op = "Add" /\ gor[h].pc = "Lock" /\ h \in mu.pending

\* C26: for one outbound call, the middlewares whose ProcessResponse runs
\* are exactly the middlewares whose ProcessRequest ran for that call, in
\* reverse order, also when Add is called between the two traversals.
C26_SameMiddlewares ==
    \A g \in Goroutines :
        (gor[g].op = "ProcessResponse" /\ gor[g].sameCall
             /\ gor[g].pc = "returned" /\ gor[g].ret.err = NilErr) =>
            [k \in 1..Len(gor[g].calls) |-> gor[g].calls[k].mw]
                = Reverse(gor[g].reqCalls)

\* The traversals in progress: the read lock granted, not yet returned.
InFlight == {g \in Goroutines : Traversing(g) /\ gor[g].pc = "loop"}

C27_ReadLockHeld ==
    \A g \in InFlight :
        /\ g \in mu.readers
        /\ mu.writer = NoGoroutine
        /\ middlewares = gor[g].snap

C27_NoAddDuringTraversal ==
    (middlewares' # middlewares \/ added' # added) => (InFlight = {} /\ InFlight' = {})

C27_AddReturns ==
    \A g \in Goroutines :
        (gor[g].op = "Add" /\ gor[g].pc = "Lock")
            ~> (gor[g].op = "Add" /\ gor[g].pc = "returned")

\* C27: a traversal holds the chain's read lock for its whole duration, also
\* while a middleware is suspended inside it (the rate limiter's acquire):
\* no Add takes effect, and none returns, while a ProcessRequest or
\* ProcessResponse traversal is in progress; and, every middleware call
\* eventually returning and no middleware calling Add on its own chain,
\* every Add eventually returns.
C27_LockedTraversal ==
    /\ []C27_ReadLockHeld
    /\ [][C27_NoAddDuringTraversal]_vars
    /\ C27_AddReturns

\* An Add is blocked in Lock while a traversal is suspended in the
\* rate-limiting middleware.
C27_AddBehindSuspended ==
    \E g, h \in Goroutines :
        /\ g \in InFlight /\ gor[g].suspended
        /\ gor[h].op = "Add" /\ gor[h].pc = "Lock"

\* ================================================= the client's rate limiter
\* The token bucket is golang.org/x/time/rate, which the repository imports:
\* it refills continuously at limiter.limit tokens per second up to
\* limiter.burst tokens; Wait(ctx) takes a token, blocking until one is there,
\* and fails without taking one when ctx fires first.

\* NewFireflyClientWithConfig: limiter: rate.NewLimiter(rate.Limit(config.RateLimit), 1)
ClientLimiter(configRateLimit) == NewLimiter(configRateLimit, 1)

\* The 60-second window in ticks.
Window == 60 * TicksPerSecond

\* One token, in units.
Token == TicksPerSecond

Min(a, b) == IF a <= b THEN a ELSE b

\* A client built by NewFireflyClientWithConfig, its bucket full, and a caller
\* about to send requests through NewRateLimitMiddleware(c.limiter).
InitLimiter ==
    /\ rateLimit \in 1..MaxRateLimit
    /\ limiter = ClientLimiter(rateLimit)
    /\ acq = AcqAt("idle")
    /\ sinceGrant = NoTicks
    /\ winElapsed = NoTicks
    /\ winCount = 0
    /\ RetryIdle
    /\ BackoffIdle
    /\ ClassifyIdle
    /\ ChainIdle
    /\ RetryMwIdle
    /\ WebhookIdle
    /\ AppIdle

\* The limiter hands out a token.
Grant ==
    /\ limiter' = [limiter EXCEPT !.tokens = @ - Token]
    /\ sinceGrant' = 0
    /\ winCount' = IF winElapsed = NoTicks THEN winCount
                   ELSE Min(winCount + 1, rateLimit + 2)

\* The caller returns from RateLimitMiddleware.ProcessRequest, limiter.Wait
\* having returned waitErr.
ProcessRequestReturns(blocked, waitErr) ==
    acq' = [acq EXCEPT !.pc = "returned", !.blocked = blocked,
                       !.waitErr = waitErr, !.gap = sinceGrant,
                       !.ret = RateLimitMiddleware_ProcessRequest(
                                   CHOOSE req \in Requests : TRUE, waitErr)]

\* ctx.Err() of the caller's context.
AcqCtxErr == IF acq.ctx = "Canceled" THEN ContextCanceled ELSE ContextDeadlineExceeded

\* r.limiter.Wait(ctx) with a token in the bucket: it is taken at once.
WaitTakesToken ==
    /\ acq.pc = "idle"
    /\ acq.ctx \in {"Background", "WithCancel"}
    /\ limiter.tokens >= Token
    /\ Grant
    /\ ProcessRequestReturns(FALSE, NilErr)
    /\ UNCHANGED <<rateLimit, winElapsed>>

\* r.limiter.Wait(ctx) with no token in the bucket: the caller blocks.
WaitBlocks ==
    /\ acq.pc = "idle"
    /\ acq.ctx \in {"Background", "WithCancel"}
    /\ limiter.tokens < Token
    /\ acq' = [acq EXCEPT !.pc = "waiting"]
    /\ UNCHANGED <<rateLimit, limiter, sinceGrant, winElapsed, winCount>>

\* A blocked Wait sees the refilled token and takes it.
WaitGranted ==
    /\ acq.pc = "waiting"
    /\ acq.ctx \in {"Background", "WithCancel"}
    /\ limiter.tokens >= Token
    /\ Grant
    /\ ProcessRequestReturns(TRUE, NilErr)
    /\ UNCHANGED <<rateLimit, winElapsed>>

\* r.limiter.Wait(ctx) with ctx fired, before the call or while it blocks:
\* it returns ctx's error and the bucket keeps its tokens.
WaitFails ==
    /\ acq.pc \in {"idle", "waiting"}
    /\ acq.ctx \in {"Canceled", "DeadlineExceeded"}
    /\ ProcessRequestReturns(acq.pc = "waiting", AcqCtxErr)
    /\ UNCHANGED <<rateLimit, limiter, sinceGrant, winElapsed, winCount>>

\* The caller's cancel function is called, or its deadline passes.
CtxFires ==
    /\ acq.pc \in {"idle", "waiting"}
    /\ acq.ctx = "WithCancel"
    /\ \E e \in {"Canceled", "DeadlineExceeded"} : acq' = [acq EXCEPT !.ctx = e]
    /\ UNCHANGED <<rateLimit, limiter, sinceGrant, winElapsed, winCount>>

\* The caller goes on to its next request, under context.Background() or
\* under a context it can cancel or that carries a deadline.
NextRequest ==
    /\ acq.pc = "returned"
    /\ \E c \in {"Background", "WithCancel"} :
          acq' = [AcqAt("idle") EXCEPT !.ctx = c]
    /\ UNCHANGED <<rateLimit, limiter, sinceGrant, winElapsed, winCount>>

\* A tick of time passes: the bucket gains limiter.limit units, up to burst,
\* and the observed window closes at its end.
Tick ==
    /\ limiter' = [limiter EXCEPT
                      !.tokens = Min(limiter.burst * Token, @ + limiter.limit)]
    /\ sinceGrant' = IF sinceGrant = NoTicks THEN NoTicks
                     ELSE Min(sinceGrant + 1, TicksPerSecond)
    /\ IF winElapsed # NoTicks /\ winElapsed + 1 >= Window
       THEN winElapsed' = NoTicks /\ winCount' = 0
       ELSE /\ winElapsed' = IF winElapsed = NoTicks THEN NoTicks ELSE winElapsed + 1
            /\ winCount' = winCount
    /\ UNCHANGED <<rateLimit, acq>>

\* An observer starts watching a window of 60 seconds.
OpenWindow ==
    /\ winElapsed = NoTicks
    /\ winElapsed' = 0
    /\ winCount' = 0
    /\ UNCHANGED <<rateLimit, limiter, acq, sinceGrant>>

NextLimiter ==
    \/ (WaitTakesToken /\ UNCHANGED otherThanLimiter)
    \/ (WaitBlocks /\ UNCHANGED otherThanLimiter)
    \/ (WaitGranted /\ UNCHANGED otherThanLimiter)
    \/ (WaitFails /\ UNCHANGED otherThanLimiter)
    \/ (CtxFires /\ UNCHANGED otherThanLimiter)
    \/ (NextRequest /\ UNCHANGED otherThanLimiter)
    \/ (Tick /\ UNCHANGED otherThanLimiter)
    \/ (OpenWindow /\ UNCHANGED otherThanLimiter)

SpecLimiter == InitLimiter /\ [][NextLimiter]_vars

\* ------------------------------------------------ claims on the rate limiter
C14_Outcome ==
    (limiter.limit = 1 /\ limiter.burst = 1 /\ acq.pc = "returned") =>
        /\ acq.waitErr = NilErr =>
              /\ acq.ret.err = NilErr /\ acq.ret.val \in Requests
              /\ acq.gap = NoTicks => ~acq.blocked
              /\ acq.gap # NoTicks => acq.gap >= TicksPerSecond
        /\ acq.waitErr # NilErr =>
              acq.ret = [val |-> NoMessage, err |-> RateLimitWaitFailed(acq.waitErr)]

C14_FailureTakesNoToken ==
    (acq.pc # "returned" /\ acq'.pc = "returned" /\ acq'.waitErr # NilErr) =>
        (limiter' = limiter /\ sinceGrant' = sinceGrant /\ winCount' = winCount)

\* C14: with a bucket of 1 token per second and burst 1, the first acquire on
\* the fresh bucket succeeds without blocking; a later acquire succeeds only
\* once a second has passed since the previous grant (a token has been
\* refilled); and an acquire whose context fires first fails, the middleware
\* returning the wrapped error and no request, with the bucket left as it was.
C14_BackToBackAcquires == []C14_Outcome /\ [][C14_FailureTakesNoToken]_vars

\* The second of two acquires blocked on the empty bucket and failed because
\* its context fired less than a second after the first was granted.
C14_SecondAcquireCancelled ==
    /\ limiter.limit = 1 /\ limiter.burst = 1
    /\ acq.pc = "returned" /\ acq.blocked /\ acq.waitErr # NilErr
    /\ sinceGrant # NoTicks /\ sinceGrant < TicksPerSecond
    /\ limiter.tokens < Token

\* C15: a client built with RateLimit = N owns a bucket of burst 1 refilling
\* at N/60 tokens per second (N per minute), so in any window of 60 seconds
\* at most N + 1 acquires succeed.
C15_PerMinuteBudget ==
    /\ limiter.burst = 1
    /\ winElapsed # NoTicks => winCount <= rateLimit + 1

\* ========================================================= RetryMiddleware
\* The configs a RetryMiddleware is built with: NewRetryMiddleware(nil) takes
\* DefaultRetryConfig(); EnableDefaultMiddleware passes the default set of
\* RetryableErrors; a caller may pass any set.
RetryMwConfigs ==
    {DefaultRetryConfig,
     [DefaultRetryConfig EXCEPT !.RetryableErrors = <<>>],
     [DefaultRetryConfig EXCEPT !.RetryableErrors = <<ErrRateLimit>>]}

\* The requests and responses it is called with: resp.Request is the request
\* the response answers.
MwStatuses == {200, 204, 301, 399} \cup Statuses
MwRequests == [Method : {"GET", "POST"}, URL : URLs, marks : {<<>>}]
MwResponses == [StatusCode : MwStatuses, Request : MwRequests, marks : {<<>>}]

InitRetryMw ==
    /\ retryMw \in {NewRetryMiddleware(c) : c \in RetryMwConfigs}
    /\ mwCall = NoCall
    /\ RetryIdle
    /\ BackoffIdle
    /\ ClassifyIdle
    /\ ChainIdle
    /\ LimiterIdle
    /\ WebhookIdle
    /\ AppIdle

\* retryMw.ProcessRequest(ctx, req)
RetryMwProcessRequest ==
    /\ \E req \in MwRequests :
          mwCall' = [method |-> "ProcessRequest", arg |-> req,
                     ret |-> RetryMiddleware_ProcessRequest(req)]
    /\ UNCHANGED retryMw

\* retryMw.ProcessResponse(ctx, resp)
RetryMwProcessResponse ==
    /\ \E resp \in MwResponses :
          mwCall' = [method |-> "ProcessResponse", arg |-> resp,
                     ret |-> RetryMiddleware_ProcessResponse(retryMw.config, resp)]
    /\ UNCHANGED retryMw

NextRetryMw ==
    \/ (RetryMwProcessRequest /\ UNCHANGED otherThanRetryMw)
    \/ (RetryMwProcessResponse /\ UNCHANGED otherThanRetryMw)

SpecRetryMw == InitRetryMw /\ [][NextRetryMw]_vars

\* C16: RetryMiddleware.ProcessResponse returns an error and no response
\* exactly when the status is >= 400 and one of the retryable statuses (408,
\* 429, 500, 502, 503, 504); for every other status (below 400, or a
\* non-retryable one such as 404) it returns the same response and no error;
\* ProcessRequest always returns the request it was given and no error.
C16_RetrySignal ==
    /\ mwCall.method = "ProcessResponse" =>
          IF mwCall.arg.StatusCode >= 400
                /\ mwCall.arg.StatusCode \in RetryableStatuses
          THEN mwCall.ret.val = NoMessage /\ mwCall.ret.err # NilErr
          ELSE mwCall.ret = [val |-> mwCall.arg, err |-> NilErr]
    /\ mwCall.method = "ProcessRequest" =>
          mwCall.ret = [val |-> mwCall.arg, err |-> NilErr]

\* ========================================================== WebhookManager
\* MaxHandlers bounds the number of RegisterHandler calls.
MaxHandlers == 3

\* A payload is malformed JSON, well-formed JSON that is no object, or the
\* JSON object of an event.
Payloads ==
    {[json |-> "malformed"], [json |-> "array"]}
    \cup {[json |-> "object", id |-> "test-event", type |-> t] : t \in EventTypes}

\* json.Unmarshal(payload, &event)
JSONError == [type |-> "json"]
Unmarshal(payload) ==
    IF payload.json = "object"
    THEN [event |-> [ID |-> payload.id, Type |-> payload.type], err |-> NilErr]
    ELSE [event |-> NoEvent, err |-> JSONError]

\* fmt.Errorf("failed to unmarshal webhook payload: %w", err)
UnmarshalFailed(err) ==
    [type |-> "wrapped",
     Msg |-> <<"failed", "to", "unmarshal", "webhook", "payload">>, Cause |-> err]

\* fmt.Errorf("webhook processing errors: %v", errs)
ProcessingErrors(errs) ==
    [type |-> "aggregate", Msg |-> <<"webhook", "processing", "errors">>,
     errs |-> errs]

\* A WebhookHandler: registration number id, for eventType; its HandleEvent
\* returns an error of its own when fails, else nil.
HandlerErr(h) == [type |-> "handler", id |-> h.id]
HandleEvent(h, event) == IF h.fails THEN HandlerErr(h) ELSE NilErr

\* w.handlers[eventType], nil for a key that is not in the map.
HandlersFor(eventType) ==
    IF eventType \in DOMAIN handlers THEN handlers[eventType] ELSE <<>>

\* NewWebhookManager(), with goroutines about to register and to dispatch.
InitWebhook ==
    /\ handlers = EmptyMap
    /\ wmu = MuFree
    /\ reg = [r \in Registrars |-> RegAt("idle")]
    /\ disp = [d \in Dispatchers |-> DispAt("idle")]
    /\ registered = <<>>
    /\ RetryIdle
    /\ BackoffIdle
    /\ ClassifyIdle
    /\ ChainIdle
    /\ LimiterIdle
    /\ RetryMwIdle
    /\ AppIdle

\* The RegisterHandler calls made so far.
Registering == {r \in Registrars : reg[r].pc \in {"Lock", "append"}}
RegisterCalls == Len(registered) + Cardinality(Registering)

\* A goroutine calls w.RegisterHandler(eventType, handler) and reaches
\* w.mu.Lock().
CallRegisterHandler(r) ==
    /\ reg[r].pc = "idle"
    /\ RegisterCalls < MaxHandlers
    /\ \E t \in EventTypes, f \in BOOLEAN :
          reg' = [reg EXCEPT ![r] =
                     [pc |-> "Lock",
                      handler |-> [id |-> RegisterCalls + 1, eventType |-> t,
                                   fails |-> f]]]
    /\ wmu' = [wmu EXCEPT !.pending = @ \cup {r}]
    /\ UNCHANGED <<handlers, disp, registered>>

\* w.mu.Lock() returns.
RegisterLock(r) ==
    /\ reg[r].pc = "Lock"
    /\ wmu.writer = NoGoroutine /\ wmu.readers = {}
    /\ wmu' = [wmu EXCEPT !.writer = r, !.pending = @ \ {r}]
    /\ reg' = [reg EXCEPT ![r].pc = "append"]
    /\ UNCHANGED <<handlers, disp, registered>>

\* The map after w.handlers[eventType] = list.
MapWith(eventType, list) ==
    [t \in DOMAIN handlers \cup {eventType} |->
        IF t = eventType THEN list ELSE handlers[t]]

\* RegisterHandler that stores the new handler alone under its event type.
RegisterAppend_Replaces(r) ==
    /\ reg[r].pc = "append"
    /\ handlers' = MapWith(reg[r].handler.eventType, <<reg[r].handler>>)
    /\ wmu' = [wmu EXCEPT !.writer = NoGoroutine]
    /\ registered' = Append(registered, reg[r].handler)
    /\ reg' = [reg EXCEPT ![r] = RegAt("idle")]
    /\ UNCHANGED disp

\* w.handlers[eventType] = append(w.handlers[eventType], handler); the
\* deferred w.mu.Unlock() runs and RegisterHandler returns.
RegisterAppend(r) ==
    /\ reg[r].pc = "append"
    /\ handlers' = MapWith(reg[r].handler.eventType,
                           Append(HandlersFor(reg[r].handler.eventType),
                                  reg[r].handler))
    /\ wmu' = [wmu EXCEPT !.writer = NoGoroutine]
    /\ registered' = Append(registered, reg[r].handler)
    /\ reg' = [reg EXCEPT ![r] = RegAt("idle")]
    /\ UNCHANGED disp

\* A goroutine calls w.ProcessWebhook(ctx, payload).
CallProcessWebhook(d) ==
    /\ disp[d].pc = "idle"
    /\ \E payload \in Payloads :
          disp' = [disp EXCEPT ![d] = [DispAt("Unmarshal") EXCEPT
                                          !.payload = payload]]
    /\ UNCHANGED <<handlers, wmu, reg, registered>>

\* ProcessWebhook that goes on with the zero event when the payload does not
\* parse.
UnmarshalPayload_IgnoresError(d) ==
    /\ disp[d].pc = "Unmarshal"
    /\ disp' = [disp EXCEPT ![d].pc = "RLock",
                            ![d].event = Unmarshal(disp[d].payload).event]
    /\ UNCHANGED <<handlers, wmu, reg, registered>>

\* json.Unmarshal(payload, &event); on an error ProcessWebhook returns it
\* wrapped.
UnmarshalPayload(d) ==
    /\ disp[d].pc = "Unmarshal"
    /\ LET u == Unmarshal(disp[d].payload)
       IN  IF u.err # NilErr
           THEN disp' = [disp EXCEPT ![d].pc = "returned",
                                     ![d].ret = UnmarshalFailed(u.err)]
           ELSE disp' = [disp EXCEPT ![d].pc = "RLock", ![d].event = u.event]
    /\ UNCHANGED <<handlers, wmu, reg, registered>>

\* w.mu.RLock() returns.
LookupRLock(d) ==
    /\ disp[d].pc = "RLock"
    /\ wmu.writer = NoGoroutine /\ wmu.pending = {}
    /\ wmu' = [wmu EXCEPT !.readers = @ \cup {d}]
    /\ disp' = [disp EXCEPT ![d].pc = "lookup"]
    /\ UNCHANGED <<handlers, reg, registered>>

\* handlers, exists := w.handlers[event.Type]; w.mu.RUnlock()
Lookup(d) ==
    /\ disp[d].pc = "lookup"
    /\ disp' = [disp EXCEPT ![d].pc = "spawn",
                            ![d].handlers = HandlersFor(disp[d].event.Type),
                            ![d].exists = disp[d].event.Type \in DOMAIN handlers,
                            ![d].atLookup = registered]
    /\ wmu' = [wmu EXCEPT !.readers = @ \ {d}]
    /\ UNCHANGED <<handlers, reg, registered>>

\* if !exists { return nil }; otherwise errChan is made and one goroutine per
\* handler is started, which calls h.HandleEvent(ctx, &event).
Spawn(d) ==
    /\ disp[d].pc = "spawn"
    /\ IF ~disp[d].exists
       THEN disp' = [disp EXCEPT ![d].pc = "returned", ![d].ret = NilErr]
       ELSE disp' = [disp EXCEPT
                        ![d].pc = "collect",
                        ![d].hstate = [k \in 1..Len(disp[d].handlers) |-> "running"],
                        ![d].started = [k \in 1..Len(disp[d].handlers) |->
                                           [handler |-> disp[d].handlers[k],
                                            event |-> disp[d].event]]]
    /\ UNCHANGED <<handlers, wmu, reg, registered>>

\* HandleEvent returns and its result is sent on errChan (buffered for all).
HandlerFinish(d, k) ==
    /\ k \in 1..Len(disp[d].hstate)
    /\ disp[d].hstate[k] = "running"
    /\ disp' = [disp EXCEPT ![d].hstate[k] = "sent",
                            ![d].errChan = Append(@, HandleEvent(disp[d].handlers[k],
                                                                 disp[d].event))]
    /\ UNCHANGED <<handlers, wmu, reg, registered>>

\* Collection that keeps only the first error it receives.
Collect_KeepsFirstError(d) ==
    /\ disp[d].pc = "collect"
    /\ disp[d].i < Len(disp[d].handlers)
    /\ disp[d].errChan # <<>>
    /\ disp' = [disp EXCEPT ![d].errChan = Tail(@),
                            ![d].i = @ + 1,
                            ![d].errs = IF Head(disp[d].errChan) # NilErr /\ @ = <<>>
                                        THEN <<Head(disp[d].errChan)>> ELSE @]
    /\ UNCHANGED <<handlers, wmu, reg, registered>>

\* One iteration of the collecting loop: err := <-errChan, appended to errs
\* when not nil.
Collect(d) ==
    /\ disp[d].pc = "collect"
    /\ disp[d].i < Len(disp[d].handlers)
    /\ disp[d].errChan # <<>>
    /\ disp' = [disp EXCEPT ![d].errChan = Tail(@),
                            ![d].i = @ + 1,
                            ![d].errs = IF Head(disp[d].errChan) # NilErr
                                        THEN Append(@, Head(disp[d].errChan)) ELSE @]
    /\ UNCHANGED <<handlers, wmu, reg, registered>>

\* ProcessWebhook that returns as soon as one result has been received.
DispatchReturn_AfterFirstResult(d) ==
    /\ disp[d].pc = "collect"
    /\ disp[d].i >= 1
    /\ disp' = [disp EXCEPT ![d].pc = "returned",
                            ![d].ret = IF disp[d].errs # <<>>
                                       THEN ProcessingErrors(disp[d].errs)
                                       ELSE NilErr]
    /\ UNCHANGED <<handlers, wmu, reg, registered>>

\* The collecting loop is over: the aggregate of errs, or nil, is returned.
DispatchReturn(d) ==
    /\ disp[d].pc = "collect"
    /\ ~(disp[d].i < Len(disp[d].handlers))
    /\ disp' = [disp EXCEPT ![d].pc = "returned",
                            ![d].ret = IF Len(disp[d].errs) > 0
                                       THEN ProcessingErrors(disp[d].errs)
                                       ELSE NilErr]
    /\ UNCHANGED <<handlers, wmu, reg, registered>>

\* The goroutine is ready for its next ProcessWebhook call; the handler
\* goroutines of the previous one have all ended.
NextDispatch(d) ==
    /\ disp[d].pc = "returned"
    /\ \A k \in 1..Len(disp[d].hstate) : disp[d].hstate[k] = "sent"
    /\ disp' = [disp EXCEPT ![d] = DispAt("idle")]
    /\ UNCHANGED <<handlers, wmu, reg, registered>>

otherThanWebhook == <<coreVars, chainVars, limiterVars, retryMwVars, appVars>>

NextWebhook ==
    \/ \E r \in Registrars : CallRegisterHandler(r) /\ UNCHANGED otherThanWebhook
    \/ \E r \in Registrars : RegisterLock(r) /\ UNCHANGED otherThanWebhook
    \/ \E r \in Registrars : RegisterAppend(r) /\ UNCHANGED otherThanWebhook
    \/ \E d \in Dispatchers : CallProcessWebhook(d) /\ UNCHANGED otherThanWebhook
    \/ \E d \in Dispatchers : UnmarshalPayload(d) /\ UNCHANGED otherThanWebhook
    \/ \E d \in Dispatchers : LookupRLock(d) /\ UNCHANGED otherThanWebhook
    \/ \E d \in Dispatchers : Lookup(d) /\ UNCHANGED otherThanWebhook
    \/ \E d \in Dispatchers : Spawn(d) /\ UNCHANGED otherThanWebhook
    \/ \E d \in Dispatchers, k \in 1..MaxHandlers :
          HandlerFinish(d, k) /\ UNCHANGED otherThanWebhook
    \/ \E d \in Dispatchers : Collect(d) /\ UNCHANGED otherThanWebhook
    \/ \E d \in Dispatchers : DispatchReturn(d) /\ UNCHANGED otherThanWebhook
    \/ \E d \in Dispatchers : NextDispatch(d) /\ UNCHANGED otherThanWebhook

SpecWebhook == InitWebhook /\ [][NextWebhook]_vars

\* ------------------------------------------------- claims on WebhookManager
\* The registrations of sq made for eventType, in order.
RegisteredFor(sq, eventType) ==
    SelectSeq(sq, LAMBDA h : h.eventType = eventType)

\* The dispatches of a well-formed event that have returned.
Dispatched(d) == disp[d].pc = "returned" /\ disp[d].payload.json = "object"

\* The handlers a dispatch invoked, and those of them that failed.
Invoked(d) == {disp[d].started[k].handler : k \in 1..Len(disp[d].started)}
Failed(d) == {h \in Invoked(d) : h.fails}

\* C17: when ProcessWebhook returns for a well-formed event of type t, every
\* handler registered for t (when the dispatch looked them up) has been
\* invoked exactly once, with that event, and has finished: no handler
\* goroutine is still running; no handler registered for another type has
\* been invoked; n handlers registered for t make exactly n invocations.
C17_AllHandlersRanOnce ==
    \A d \in Dispatchers :
        Dispatched(d) =>
            LET t == disp[d].payload.type
                expected == RegisteredFor(disp[d].atLookup, t)
                st == disp[d].started
            IN  /\ Len(st) = Len(expected)
                /\ \A j \in 1..Len(expected) :
                      Cardinality({k \in 1..Len(st) : st[k].handler = expected[j]}) = 1
                /\ \A k \in 1..Len(st) :
                      /\ st[k].handler.eventType = t
                      /\ st[k].event = [ID |-> disp[d].payload.id, Type |-> t]
                /\ \A k \in 1..Len(disp[d].hstate) : disp[d].hstate[k] = "sent"

\* A dispatch over three handlers registered for its event's type has
\* returned.
C17_ThreeHandlersInvoked ==
    \E d \in Dispatchers :
        /\ Dispatched(d)
        /\ Len(disp[d].started) = 3
        /\ Len(RegisteredFor(registered, disp[d].payload.type)) = 3

\* C18: for a well-formed payload ProcessWebhook returns nil exactly when no
\* invoked handler failed (so also when none is registered for the type);
\* otherwise it returns one aggregate error holding the error of every failed
\* handler and nothing else; and whether or not handlers fail, all handlers
\* looked up have been run and their results received.
C18_AggregateOutcome ==
    \A d \in Dispatchers :
        Dispatched(d) =>
            /\ (disp[d].ret = NilErr) <=> (Failed(d) = {})
            /\ disp[d].ret # NilErr =>
                  /\ disp[d].ret.type = "aggregate"
                  /\ Len(disp[d].ret.errs) = Cardinality(Failed(d))
                  /\ {disp[d].ret.errs[k] : k \in 1..Len(disp[d].ret.errs)}
                        = {HandlerErr(h) : h \in Failed(d)}
            /\ Len(disp[d].started) = Len(disp[d].handlers)
            /\ disp[d].i = Len(disp[d].handlers)
            /\ disp[d].errChan = <<>>

\* A dispatch over three handlers of which only the second failed has
\* returned the aggregate naming that failure.
C18_SecondOfThreeFailed ==
    \E d \in Dispatchers :
        /\ Dispatched(d)
        /\ Len(disp[d].handlers) = 3
        /\ ~disp[d].handlers[1].fails
        /\ disp[d].handlers[2].fails
        /\ ~disp[d].handlers[3].fails
        /\ disp[d].ret = ProcessingErrors(<<HandlerErr(disp[d].handlers[2])>>)

\* C19: ProcessWebhook on a payload that is not well-formed JSON returns the
\* parse error, never nil, and invokes no handler, whatever is registered.
C19_MalformedPayload ==
    \A d \in Dispatchers :
        (disp[d].payload.json = "malformed" /\ disp[d].pc # "Unmarshal") =>
            /\ disp[d].pc = "returned"
            /\ disp[d].ret = UnmarshalFailed(JSONError)
            /\ disp[d].started = <<>>
            /\ disp[d].hstate = <<>>

\* ProcessWebhook has returned on a malformed payload with handlers
\* registered for every event type.
C19_MalformedWithHandlers ==
    \E d \in Dispatchers :
        /\ disp[d].payload.json = "malformed" /\ disp[d].pc = "returned"
        /\ DOMAIN handlers = EventTypes

C20_Registry ==
    /\ \A t \in EventTypes : HandlersFor(t) = RegisteredFor(registered, t)
    /\ \A d \in Dispatchers :
          disp[d].pc \in {"spawn", "collect", "returned"}
              /\ disp[d].payload.json = "object" =>
                /\ disp[d].handlers =
                      RegisteredFor(disp[d].atLookup, disp[d].event.Type)
                /\ Invoked(d) \subseteq
                      {disp[d].atLookup[k] : k \in 1..Len(disp[d].atLookup)}

C20_AppendOnly ==
    /\ IsPrefix(registered, registered')
    /\ \A t \in EventTypes : IsPrefix(HandlersFor(t), HandlersFor(t)')

\* C20: under any interleaving of RegisterHandler and ProcessWebhook calls no
\* registration is lost (each event type's list is the registrations made for
\* it by the calls that returned, in order), a list only ever grows at its
\* end, and a dispatch runs exactly the handlers that were registered for its
\* event's type at the instant of its lookup: one registered later is not
\* invoked by it.
C20_RegisterIsAppendOnly == [][C20_AppendOnly]_vars /\ []C20_Registry

\* While a dispatch is awaiting its handlers, a RegisterHandler call for the
\* same event type has returned; the dispatch runs only the earlier ones.
C20_RegisteredDuringDispatch ==
    \E d \in Dispatchers :
        /\ disp[d].pc = "collect"
        /\ Len(disp[d].handlers) >= 1
        /\ Len(registered) > Len(disp[d].atLookup)
        /\ registered[Len(registered)].eventType = disp[d].event.Type

\* ------------------------------------- claims on RetryOperation, continued
\* C25: for every retry configuration a caller can store in the client (any
\* RetryCount and RetryDelay, those of WithRetry included), RetryOperation
\* that observed no cancellation returns the outcome of its last invocation
\* of the operation: success only if the operation was invoked and its last
\* invocation succeeded, and otherwise that invocation's error.
C25_LastOutcome ==
    (pc = "done" /\ ctxState = "active") =>
        (invocations >= 1 /\ result = OpOutcome(invocations))

\* ============================================================ WebhookServer
\* The inbound HTTP requests: any method, unsigned or with an invalid or a
\* valid signature of the body under the shared secret, and a body that can
\* or cannot be read to its end.
Signatures == {"none", "invalid", "valid"}
HTTPRequests ==
    [Method : {"GET", "POST"}, signature : Signatures, body : Payloads,
     readable : BOOLEAN]

\* The handler registries of the server's manager: none, or one or two
\* handlers (the second failing) for event type "t".
ServerHandler(n, fails) == [id |-> n, eventType |-> "t", fails |-> fails]
ServerRegistries ==
    {EmptyMap,
     [t \in {"t"} |-> <<ServerHandler(1, FALSE)>>],
     [t \in {"t"} |-> <<ServerHandler(1, FALSE), ServerHandler(2, TRUE)>>]}

\* NewWebhookServer(addr, path, secret, manager), started, no request yet.
InitServer ==
    /\ ws \in [secret : {"", "s3cret"}, handlers : ServerRegistries]
    /\ hw = HwAt("idle")
    /\ LibIdle
    /\ ClientIdle
    /\ OAuthIdle
    /\ ImporterIdle
    /\ BaseIdle

\* ws.manager.ProcessWebhook(ctx, body) from call to return: the error it
\* returns and the handlers it invoked.
ProcessWebhook(registry, payload) ==
    LET u == Unmarshal(payload)
        hs == IF u.err = NilErr /\ u.event.Type \in DOMAIN registry
              THEN registry[u.event.Type] ELSE <<>>
        errs == SelectSeq([k \in 1..Len(hs) |-> HandleEvent(hs[k], u.event)],
                          LAMBDA e : e # NilErr)
    IN  [err |-> IF u.err # NilErr THEN UnmarshalFailed(u.err)
                 ELSE IF errs # <<>> THEN ProcessingErrors(errs) ELSE NilErr,
         invoked |-> hs]

\* The mux hands a request for ws.path to handleWebhook.
Receive ==
    /\ hw.pc = "idle"
    /\ \E r \in HTTPRequests : hw' = [HwAt("method") EXCEPT !.r = r]
    /\ UNCHANGED ws

\* if r.Method != http.MethodPost: 405.
CheckMethod ==
    /\ hw.pc = "method"
    /\ hw' = IF hw.r.Method # "POST"
             THEN [hw EXCEPT !.pc = "done", !.status = 405]
             ELSE [hw EXCEPT !.pc = "read"]
    /\ UNCHANGED ws

\* bodyBytes, err := io.ReadAll(r.Body): 400 on an error.
ReadBody ==
    /\ hw.pc = "read"
    /\ hw' = IF ~hw.r.readable
             THEN [hw EXCEPT !.pc = "done", !.status = 400]
             ELSE [hw EXCEPT !.pc = "secret"]
    /\ UNCHANGED ws

\* if ws.secret != "" { }: the body of the branch is empty.
CheckSecret ==
    /\ hw.pc = "secret"
    /\ hw' = [hw EXCEPT !.pc = "process"]
    /\ UNCHANGED ws

\* ws.manager.ProcessWebhook(ctx, body): 500 on an error, else 200 "OK".
Process ==
    /\ hw.pc = "process"
    /\ LET p == ProcessWebhook(ws.handlers, hw.r.body)
       IN  hw' = [hw EXCEPT !.pc = "done",
                            !.dispatched = Append(@, hw.r.body),
                            !.invoked = p.invoked,
                            !.status = IF p.err # NilErr THEN 500 ELSE 200]
    /\ UNCHANGED ws

\* The response is written; the server waits for the next request.
Served ==
    /\ hw.pc = "done"
    /\ hw' = HwAt("idle")
    /\ UNCHANGED ws

libVars == <<coreVars, chainVars, limiterVars, retryMwVars, webhookVars>>
otherThanServer == <<libVars, clientVars, oauthVars, importerVars, baseVars>>

NextServer ==
    \/ Receive /\ UNCHANGED otherThanServer
    \/ CheckMethod /\ UNCHANGED otherThanServer
    \/ ReadBody /\ UNCHANGED otherThanServer
    \/ CheckSecret /\ UNCHANGED otherThanServer
    \/ Process /\ UNCHANGED otherThanServer
    \/ Served /\ UNCHANGED otherThanServer

SpecServer == InitServer /\ [][NextServer]_vars

\* C21: with a non-empty shared secret configured, a POST whose payload is
\* unsigned or carries an invalid signature is rejected before dispatch:
\* ProcessWebhook is not called for it and no handler is invoked.
C21_UnsignedRejected ==
    (ws.secret # "" /\ hw.r.Method = "POST" /\ hw.r.signature # "valid") =>
        (hw.dispatched = <<>> /\ hw.invoked = <<>>)

\* ============================================================ FireflyClient
\* MaxEnables bounds the number of EnableDefaultMiddleware calls.
MaxEnables == 2

\* The configurations handed to NewFireflyClientWithConfig (BaseURL set).
ClientConfigs ==
    [RetryCount : 0..1, RetryDelay : {Second}, RateLimit : 1..MaxRateLimit,
     DebugMode : BOOLEAN]

\* NewFireflyClient(baseURL, token): no config, no limiter.
NewFireflyClient ==
    [config |-> NilConfig, limiter |-> NilLimiter, middleware |-> <<>>]

\* NewFireflyClientWithConfig(config)
NewFireflyClientWithConfig(cfg) ==
    [config |-> cfg, limiter |-> ClientLimiter(cfg.RateLimit), middleware |-> <<>>]

InitClient ==
    /\ client \in {NewFireflyClient}
                    \cup {NewFireflyClientWithConfig(cfg) : cfg \in ClientConfigs}
    /\ tx = TxAt("idle")
    /\ enabled = [count |-> 0, first |-> <<>>]
    /\ LibIdle
    /\ ServerIdle
    /\ OAuthIdle
    /\ ImporterIdle
    /\ BaseIdle

\* The middlewares one EnableDefaultMiddleware call hands to AddMiddleware,
\* in order.
DefaultMiddleware(c) ==
    (IF c.limiter # NilLimiter THEN <<RateLimitMiddleware>> ELSE <<>>)
    \o (IF c.config # NilConfig /\ c.config.DebugMode
        THEN <<LoggingMiddleware>> ELSE <<>>)
    \o (IF c.config # NilConfig /\ c.config.RetryCount > 0
        THEN <<NewRetryMiddleware(
                  [MaxRetries |-> c.config.RetryCount,
                   InitialDelay |-> c.config.RetryDelay,
                   MaxDelay |-> DefaultMaxDelaySec * Second,
                   BackoffFactor |-> <<2, 1>>,
                   RetryableErrors |->
                       <<ErrNetwork, ErrTimeout, ErrServerError, ErrRateLimit>>])>>
        ELSE <<>>)

\* c.EnableDefaultMiddleware(): each AddMiddleware appends under the chain's
\* lock; enabled.first keeps the chain the first call left.
EnableDefaultMiddleware ==
    /\ tx.pc = "idle"
    /\ enabled.count < MaxEnables
    /\ client' = [client EXCEPT !.middleware = @ \o DefaultMiddleware(client)]
    /\ enabled' = [count |-> enabled.count + 1,
                   first |-> IF enabled.count = 0 THEN client'.middleware
                                                  ELSE enabled.first]
    /\ UNCHANGED tx

\* One step of the trace of a call: a middleware's ProcessRequest or
\* ProcessResponse, or the request reaching the transport.
TraceStep(step, mw) == [step |-> step, mw |-> mw]
AtTransport == TraceStep("transport", NoMiddleware)

\* c.middleware.ProcessRequest(ctx, req) by one caller with a background
\* context (every limiter wait ends with a token): from index k on, with
\* the current request, the calls made and the tokens taken so far.
RECURSIVE ProcessRequestFrom(_, _, _, _, _)
ProcessRequestFrom(mws, k, cur, trace, tokens) ==
    IF k > Len(mws)
    THEN [val |-> cur, err |-> NilErr, trace |-> trace, tokens |-> tokens]
    ELSE LET r == Middleware_ProcessRequest(mws[k], cur, NilErr)
             t == Append(trace, TraceStep("ProcessRequest", mws[k]))
             n == tokens + (IF mws[k].kind = "ratelimit" THEN 1 ELSE 0)
         IN  IF r.err # NilErr
             THEN [val |-> NoMessage, err |-> r.err, trace |-> t, tokens |-> n]
             ELSE ProcessRequestFrom(mws, k + 1, r.val, t, n)

\* The outcomes of c.clientAPI.GetTransactionWithResponse: a transport
\* error, or a response with a status and a body.
TransportErr == [type |-> "plain", Msg |-> "transport"]
PlainErr(msg) == [type |-> "plain", Msg |-> msg]
APIOutcomes ==
    {[err |-> TransportErr, StatusCode |-> 0, body |-> "empty"]}
    \cup [err : {NilErr},
          StatusCode : {200, StatusNotFound, StatusTooManyRequests,
                        StatusInternalServerError},
          body : {"empty", "malformed", "transaction"}]

\* APIErr(msg, err)
APIErr(msg, err) == ErrBuilder("CodeInternal", msg, NoDetails, err)

\* What GetTransaction returns for an outcome of the API call.
GetTransactionResult(o, id) ==
    IF o.err # NilErr
    THEN [val |-> "none", err |-> APIErr("Failed to get transaction", o.err)]
    ELSE IF o.StatusCode = StatusNotFound
    THEN [val |-> "none",
          err |-> NotFoundErr("Transaction", PlainErr("transaction not found"))]
    ELSE IF o.StatusCode = StatusTooManyRequests
    THEN [val |-> "none", err |-> RateLimitErr(PlainErr("rate limit exceeded"))]
    ELSE IF o.StatusCode # 200
    THEN [val |-> "none",
          err |-> APIErr("Failed to get transaction", PlainErr("unexpected status"))]
    ELSE IF o.body = "empty"
    THEN [val |-> "none",
          err |-> APIErr("No transaction data found", PlainErr("empty response"))]
    ELSE IF o.body = "malformed"
    THEN [val |-> "none",
          err |-> APIErr("Failed to parse transaction response", JSONError)]
    ELSE [val |-> id, err |-> NilErr]

\* c.GetTransaction(ctx, id) calls c.clientAPI.GetTransactionWithResponse:
\* the request is on its way to the transport.
CallGetTransaction ==
    /\ tx.pc = "idle"
    /\ tx' = [TxAt("api") EXCEPT !.op = "GetTransaction",
                                 !.trace = <<AtTransport>>]
    /\ UNCHANGED <<client, enabled>>

\* The API call returns and GetTransaction returns what it makes of it.
GetTransactionReturn ==
    /\ tx.pc = "api"
    /\ \E o \in APIOutcomes :
          tx' = [tx EXCEPT !.pc = "returned",
                           !.ret = GetTransactionResult(o, "tx1")]
    /\ UNCHANGED <<client, enabled>>

\* Code of the package calls c.middleware.ProcessRequest(ctx, req).
ChainProcessRequest ==
    /\ tx.pc = "idle"
    /\ \E req \in Requests :
          LET r == ProcessRequestFrom(client.middleware, 1, req, <<>>, 0)
          IN  tx' = [TxAt("returned") EXCEPT
                         !.op = "ProcessRequest", !.trace = r.trace,
                         !.tokens = r.tokens,
                         !.ret = [val |-> r.val, err |-> r.err]]
    /\ UNCHANGED <<client, enabled>>

\* The caller goes on to its next call.
TxDone ==
    /\ tx.pc = "returned"
    /\ tx' = TxAt("idle")
    /\ UNCHANGED <<client, enabled>>

otherThanClient == <<libVars, serverVars, oauthVars, importerVars, baseVars>>

NextClient ==
    \/ EnableDefaultMiddleware /\ UNCHANGED otherThanClient
    \/ CallGetTransaction /\ UNCHANGED otherThanClient
    \/ GetTransactionReturn /\ UNCHANGED otherThanClient
    \/ ChainProcessRequest /\ UNCHANGED otherThanClient
    \/ TxDone /\ UNCHANGED otherThanClient

SpecClient == InitClient /\ [][NextClient]_vars

\* The trace of a call that passes through the chain mws: ProcessRequest of
\* every middleware in order, the transport, ProcessResponse in reverse.
ThroughChain(mws) ==
    [k \in 1..Len(mws) |-> TraceStep("ProcessRequest", mws[k])]
    \o <<AtTransport>>
    \o [k \in 1..Len(mws) |-> TraceStep("ProcessResponse", mws[Len(mws) + 1 - k])]

\* C22: an API call made through a client method (GetTransaction) passes
\* through the client's middleware chain: ProcessRequest of every registered
\* middleware runs before the request reaches the transport and the response
\* passes back through ProcessResponse in reverse order before the method
\* returns.
C22_ThroughChain ==
    (tx.op = "GetTransaction" /\ tx.pc = "returned") =>
        tx.trace = ThroughChain(client.middleware)

\* The number of middlewares of a kind in a chain.
CountKind(mws, kind) == Cardinality({k \in 1..Len(mws) : mws[k].kind = kind})

\* C28: EnableDefaultMiddleware is idempotent: after a further call the chain
\* is as the first call left it, with at most one rate-limiting, one logging
\* and one retry-signaling middleware, and one ProcessRequest through the
\* chain acquires exactly one rate-limiter token.
C28_Idempotent ==
    enabled.count >= 1 =>
        /\ client.middleware = enabled.first
        /\ \A kind \in {"ratelimit", "logging", "retry"} :
              CountKind(client.middleware, kind) <= 1
        /\ (tx.op = "ProcessRequest" /\ tx.pc = "returned"
                /\ client.limiter # NilLimiter) => tx.tokens = 1

\* =================================================================== OAuth2
ErrOAuth2 == "oauth2_error"

\* OAuth2Config: every string field is empty or set.
OAuth2Configs ==
    [ClientID : {"", "test-client"}, ClientSecret : {"", "test-secret"},
     RedirectURL : {"", "https://example.com/callback"},
     AuthURL : {"", "https://example.com/auth"},
     TokenURL : {"", "https://example.com/token"}]

\* c.config of the clients: nil (NewFireflyClient), without OAuth2, or with
\* WithOAuth2(cfg).
OAuth2ClientConfigs ==
    {NilConfig, [OAuth2 |-> NilOAuth2]} \cup [OAuth2 : OAuth2Configs]

InitOAuth2 ==
    /\ oconfig \in OAuth2ClientConfigs
    /\ ocall = NoOAuth2Call
    /\ LibIdle
    /\ ServerIdle
    /\ ClientIdle
    /\ ImporterIdle
    /\ BaseIdle

\* &OAuth2Error{ErrorCode, ErrorDescription} and OAuth2Err(oauthErr)
OAuth2Error(errorCode, errorDescription) ==
    [type |-> "OAuth2Error", ErrorCode |-> errorCode,
     ErrorDescription |-> errorDescription]
OAuth2Err(oauthErr) ==
    ErrBuilder("CodeUnauthenticated", "OAuth2 Error",
               <<"error_type", ErrOAuth2, "oauth2_error", oauthErr.ErrorCode,
                 "oauth2_description", oauthErr.ErrorDescription, "oauth2_uri">>,
               oauthErr)

\* What a method returns: a value and an error, and the requests it sent.
OAuth2Failure(errorCode, errorDescription, sent) ==
    [ret |-> [val |-> "none",
              err |-> OAuth2Err(OAuth2Error(errorCode, errorDescription))],
     sent |-> sent]
OAuth2Success(val, sent) == [ret |-> [val |-> val, err |-> NilErr], sent |-> sent]

NotConfigured(cfg) == cfg = NilConfig \/ cfg.OAuth2 = NilOAuth2
OAuth2NotConfigured ==
    OAuth2Failure("oauth2_not_configured", "OAuth2 configuration is missing", <<>>)

\* The token request of golang.org/x/oauth2 (config.Token, config.Exchange,
\* tokenSource.Token): a POST to tokenURL, which an empty URL makes fail
\* before anything is sent; `answer` is what the token endpoint does with it.
TokenAnswers == {"token", "error"}
TokenRequest(tokenURL, grant, answer) ==
    IF tokenURL = ""
    THEN [token |-> FALSE, sent |-> <<>>]
    ELSE [token |-> answer = "token", sent |-> <<[url |-> tokenURL, grant |-> grant]>>]

\* c.GetOAuth2ClientCredentialsToken(ctx)
GetOAuth2ClientCredentialsToken(cfg, answer) ==
    IF NotConfigured(cfg) THEN OAuth2NotConfigured
    ELSE IF cfg.OAuth2.ClientID = "" \/ cfg.OAuth2.ClientSecret = ""
                \/ cfg.OAuth2.TokenURL = ""
    THEN OAuth2Failure("oauth2_configuration_incomplete",
                       "client_id, client_secret, and token_url are required", <<>>)
    ELSE LET t == TokenRequest(cfg.OAuth2.TokenURL, "client_credentials", answer)
         IN  IF ~t.token
             THEN OAuth2Failure("token_request_failed",
                                "Failed to obtain OAuth2 token", t.sent)
             ELSE OAuth2Success("token", t.sent)

\* c.GenerateOAuth2AuthURL(state); randOK is whether rand.Read succeeded.
GenerateOAuth2AuthURL(cfg, state, randOK) ==
    IF NotConfigured(cfg) THEN OAuth2NotConfigured
    ELSE IF cfg.OAuth2.ClientID = "" \/ cfg.OAuth2.AuthURL = ""
                \/ cfg.OAuth2.RedirectURL = ""
    THEN OAuth2Failure("oauth2_configuration_incomplete",
                       "client_id, auth_url, and redirect_url are required", <<>>)
    ELSE IF state = "" /\ ~randOK
    THEN OAuth2Failure("state_generation_failed", "Failed to generate state", <<>>)
    ELSE OAuth2Success("authURL", <<>>)

\* ExchangeOAuth2Code that reads the configuration without the nil check
\* (the zero OAuth2Config stands for what is not there).
ExchangeOAuth2Code_NoNilCheck(cfg, code, answer) ==
    LET tokenURL == IF NotConfigured(cfg) THEN "https://example.com/token"
                    ELSE cfg.OAuth2.TokenURL
        t == TokenRequest(tokenURL, "authorization_code", answer)
    IN  IF ~t.token
        THEN OAuth2Failure("code_exchange_failed",
                           "Failed to exchange OAuth2 code", t.sent)
        ELSE OAuth2Success("token", t.sent)

\* c.ExchangeOAuth2Code(ctx, code, state)
ExchangeOAuth2Code(cfg, code, answer) ==
    IF NotConfigured(cfg) THEN OAuth2NotConfigured
    ELSE LET t == TokenRequest(cfg.OAuth2.TokenURL, "authorization_code", answer)
         IN  IF ~t.token
             THEN OAuth2Failure("code_exchange_failed",
                                "Failed to exchange OAuth2 code", t.sent)
             ELSE OAuth2Success("token", t.sent)

\* c.RefreshOAuth2Token(ctx, refreshToken): the token source has no valid
\* access token, and without a refresh token it fails before any request.
RefreshOAuth2Token(cfg, refreshToken, answer) ==
    IF NotConfigured(cfg) THEN OAuth2NotConfigured
    ELSE LET t == IF refreshToken = "" THEN [token |-> FALSE, sent |-> <<>>]
                  ELSE TokenRequest(cfg.OAuth2.TokenURL, "refresh_token", answer)
         IN  IF ~t.token
             THEN OAuth2Failure("token_refresh_failed",
                                "Failed to refresh OAuth2 token", t.sent)
             ELSE OAuth2Success("token", t.sent)

OAuth2Returns(method, r) == ocall' = [method |-> method, ret |-> r.ret, sent |-> r.sent]

CallGetOAuth2ClientCredentialsToken ==
    /\ \E answer \in TokenAnswers :
          OAuth2Returns("GetOAuth2ClientCredentialsToken",
                        GetOAuth2ClientCredentialsToken(oconfig, answer))
    /\ UNCHANGED oconfig

CallGenerateOAuth2AuthURL ==
    /\ \E state \in {"", "test-state"}, randOK \in BOOLEAN :
          OAuth2Returns("GenerateOAuth2AuthURL",
                        GenerateOAuth2AuthURL(oconfig, state, randOK))
    /\ UNCHANGED oconfig

CallExchangeOAuth2Code ==
    /\ \E answer \in TokenAnswers :
          OAuth2Returns("ExchangeOAuth2Code",
                        ExchangeOAuth2Code(oconfig, "test-code", answer))
    /\ UNCHANGED oconfig

CallRefreshOAuth2Token ==
    /\ \E refreshToken \in {"", "test-refresh-token"}, answer \in TokenAnswers :
          OAuth2Returns("RefreshOAuth2Token",
                        RefreshOAuth2Token(oconfig, refreshToken, answer))
    /\ UNCHANGED oconfig

otherThanOAuth2 == <<libVars, serverVars, clientVars, importerVars, baseVars>>

NextOAuth2 ==
    \/ CallGetOAuth2ClientCredentialsToken /\ UNCHANGED otherThanOAuth2
    \/ CallGenerateOAuth2AuthURL /\ UNCHANGED otherThanOAuth2
    \/ CallExchangeOAuth2Code /\ UNCHANGED otherThanOAuth2
    \/ CallRefreshOAuth2Token /\ UNCHANGED otherThanOAuth2

SpecOAuth2 == InitOAuth2 /\ [][NextOAuth2]_vars

\* An error of kind oauth2 with the given sub-code.
IsOAuth2Err(e, subCodes) ==
    /\ e.type = "ErrBuilder"
    /\ e.Details[1] = "error_type" /\ e.Details[2] = ErrOAuth2
    /\ e.Details[3] = "oauth2_error" /\ e.Details[4] \in subCodes
    /\ e.Cause.type = "OAuth2Error" /\ e.Cause.ErrorCode \in subCodes

OAuth2Methods ==
    {"GetOAuth2ClientCredentialsToken", "GenerateOAuth2AuthURL",
     "ExchangeOAuth2Code", "RefreshOAuth2Token"}

\* C23: on a client without OAuth2 configuration each of the four OAuth2
\* methods fails with an error of kind oauth2 and sub-code
\* oauth2_not_configured, and sends no request.
C23_NotConfigured ==
    (NotConfigured(oconfig) /\ ocall.method \in OAuth2Methods) =>
        /\ IsOAuth2Err(ocall.ret.err, {"oauth2_not_configured"})
        /\ ocall.ret.val = "none"
        /\ ocall.sent = <<>>

\* ExchangeOAuth2Code was called on a client whose config has no OAuth2.
C23_ExchangeWithoutOAuth2 ==
    /\ oconfig = [OAuth2 |-> NilOAuth2]
    /\ ocall.method = "ExchangeOAuth2Code"

\* The configuration is present but lacks a field the flow of the method
\* needs.
Incomplete(method) ==
    /\ ~NotConfigured(oconfig)
    /\ LET o == oconfig.OAuth2
       IN  CASE method = "GetOAuth2ClientCredentialsToken" ->
                   o.ClientID = "" \/ o.ClientSecret = "" \/ o.TokenURL = ""
             [] method = "GenerateOAuth2AuthURL" ->
                   o.ClientID = "" \/ o.AuthURL = "" \/ o.RedirectURL = ""
             [] OTHER ->
                   o.ClientID = "" \/ o.ClientSecret = "" \/ o.AuthURL = ""
                       \/ o.TokenURL = ""

\* C24: with an OAuth2 configuration that is present but incomplete for the
\* flow used, the method fails with kind oauth2 and a configuration sub-code
\* and sends no token request.
C24_IncompleteRejected ==
    (ocall.method \in OAuth2Methods /\ Incomplete(ocall.method)) =>
        /\ IsOAuth2Err(ocall.ret.err,
                       {"oauth2_configuration_incomplete", "oauth2_not_configured"})
        /\ ocall.sent = <<>>

\* ================================================================ importers
\* The Importer values of the callers: each is known to its caller by a
\* name (the Name of the ImporterConfig it is meant to run with), and its
\* ValidateConfig accepts the empty ImporterConfig or not.
ImporterNames == {"csv", "ofx", "api", "camt"}
Importers == [name : ImporterNames, valid : BOOLEAN]

\* The names GetImporter is asked for: the importers' names, the empty
\* string and a name nobody uses.
LookupNames == ImporterNames \cup {"", "unknown"}

InitImporters ==
    /\ importers = EmptyMap
    /\ icall = NoImporterCall
    /\ accepted = {}
    /\ LibIdle
    /\ ServerIdle
    /\ ClientIdle
    /\ OAuthIdle
    /\ BaseIdle

\* config := importers.ImporterConfig{}: the zero value, whose Name is "".
ZeroImporterConfig == [Name |-> ""]

\* importer.ValidateConfig(config) and the error RegisterImporter makes of
\* its failure.
ValidateConfig(importer, cfg) ==
    IF importer.valid THEN NilErr ELSE [type |-> "plain", Msg |-> "invalid config"]
InvalidImporterConfig(err) ==
    [type |-> "wrapped",
     Msg |-> <<"invalid", "importer", "configuration">>, Cause |-> err]
ImporterNotFound(name) ==
    [type |-> "plain", Msg |-> <<"importer", "not", "found", name>>]

\* The map m with m[key] = value.
MapPut(m, key, value) ==
    [k \in DOMAIN m \cup {key} |-> IF k = key THEN value ELSE m[k]]

\* c.RegisterImporter(importer)
RegisterImporter(importer) ==
    LET cfg == ZeroImporterConfig
        err == ValidateConfig(importer, cfg)
    IN  /\ icall' = [NoImporterCall EXCEPT
                         !.method = "RegisterImporter", !.arg = importer.name,
                         !.err = IF err # NilErr THEN InvalidImporterConfig(err)
                                 ELSE NilErr]
        /\ importers' = IF err # NilErr THEN importers
                        ELSE MapPut(importers, cfg.Name, importer)
        /\ accepted' = IF err # NilErr THEN accepted ELSE accepted \cup {importer}

\* c.GetImporter(name)
GetImporter(name) ==
    /\ icall' = IF name \in DOMAIN importers
                THEN [NoImporterCall EXCEPT !.method = "GetImporter", !.arg = name,
                                            !.val = importers[name]]
                ELSE [NoImporterCall EXCEPT !.method = "GetImporter", !.arg = name,
                                            !.err = ImporterNotFound(name)]
    /\ UNCHANGED <<importers, accepted>>

\* c.ListImporters(): the values of the map, in the order the range over
\* the map happens to take.
ListImporters ==
    /\ \E order \in [1..Cardinality(DOMAIN importers) -> DOMAIN importers] :
          /\ \A j, k \in DOMAIN order : j # k => order[j] # order[k]
          /\ icall' = [NoImporterCall EXCEPT
                           !.method = "ListImporters",
                           !.list = [k \in DOMAIN order |-> importers[order[k]]]]
    /\ UNCHANGED <<importers, accepted>>

otherThanImporters == <<libVars, serverVars, clientVars, oauthVars, baseVars>>

\* Callers register importers with distinct names.
NextImporters ==
    \/ \E importer \in Importers :
          /\ \A other \in accepted : other.name # importer.name
          /\ RegisterImporter(importer)
          /\ UNCHANGED otherThanImporters
    \/ \E name \in LookupNames : GetImporter(name) /\ UNCHANGED otherThanImporters
    \/ ListImporters /\ UNCHANGED otherThanImporters

SpecImporters == InitImporters /\ [][NextImporters]_vars

\* C29: after successful RegisterImporter calls for importers with distinct
\* names, ListImporters returns every registered importer, GetImporter(name)
\* returns the importer registered under that name and an error for a name
\* never registered, and a further registration leaves the earlier importers
\* in the registry.
C29_RegistryKeepsAll ==
    /\ \A importer \in accepted :
          importer.name \in DOMAIN importers
              /\ importers[importer.name] = importer
    /\ icall.method = "ListImporters" =>
          \A importer \in accepted :
              \E k \in 1..Len(icall.list) : icall.list[k] = importer
    /\ icall.method = "GetImporter" =>
          IF \E importer \in accepted : importer.name = icall.arg
          THEN icall.err = NilErr /\ icall.val.name = icall.arg
          ELSE icall.err # NilErr

\* ============================================================= BaseImporter
\* The arguments of UpdateProgress and the names of the configurations
\* handed to Initialize.
ProgressCounts == {0, 1, 5}
ProgressStatuses == {"running", "completed"}
ImporterConfigNames == {"csv", "ofx"}

InitBaseImporter ==
    /\ base = NewBaseImporter
    /\ history = NoHistory
    /\ LibIdle
    /\ ServerIdle
    /\ ClientIdle
    /\ OAuthIdle
    /\ ImporterIdle

\* b.Initialize(ctx, config): config, a fresh cancellable context and a
\* fresh progress; b.cancelled is not assigned.
BaseImporter_Initialize ==
    /\ \E name \in ImporterConfigNames :
          base' = [base EXCEPT !.config = name, !.ctx = "active",
                               !.cancelFunc = TRUE,
                               !.progress = ImportProgress(0, 0, 0, "")]
    /\ history' = [initialized |-> TRUE, cancelPending |-> FALSE]

\* b.Cancel(ctx)
BaseImporter_Cancel ==
    /\ base' = IF base.cancelFunc
               THEN [base EXCEPT !.cancelled = TRUE, !.ctx = "cancelled"]
               ELSE base
    /\ history' = IF history.initialized
                  THEN [history EXCEPT !.cancelPending = TRUE]
                  ELSE history

\* b.Cleanup(ctx)
BaseImporter_Cleanup ==
    /\ base' = [base EXCEPT !.progress = NilProgress, !.cancelled = FALSE]
    /\ history' = [history EXCEPT !.cancelPending = FALSE]

\* b.UpdateProgress(processed, succeeded, failed, status)
BaseImporter_UpdateProgress ==
    /\ \E processed, succeeded, failed \in ProgressCounts,
          status \in ProgressStatuses :
          base' = IF base.progress # NilProgress
                  THEN [base EXCEPT !.progress =
                            ImportProgress(processed, succeeded, failed, status)]
                  ELSE base
    /\ UNCHANGED history

\* b.IsCancelled()
IsCancelled == base.cancelled

otherThanBase == <<libVars, serverVars, clientVars, oauthVars, importerVars>>

NextBaseImporter ==
    \/ BaseImporter_Initialize /\ UNCHANGED otherThanBase
    \/ BaseImporter_Cancel /\ UNCHANGED otherThanBase
    \/ BaseImporter_Cleanup /\ UNCHANGED otherThanBase
    \/ BaseImporter_UpdateProgress /\ UNCHANGED otherThanBase

SpecBaseImporter == InitBaseImporter /\ [][NextBaseImporter]_vars

\* C30: after any sequence of Initialize, Cancel, Cleanup and UpdateProgress
\* calls, IsCancelled() is true exactly when Cancel has been called since the
\* most recent Initialize and Cleanup has not been called since that Cancel;
\* so it is false right after every Initialize, and a Cancel before the
\* first Initialize has no effect.
C30_IsCancelled == IsCancelled <=> history.cancelPending

====
